---- MODULE Spec2Model ----
(***************************************************************************)
(* Model of the byte-pattern scanning engine of cpp-systems-toolkit        *)
(* (src/libraries/pattern-scanning/PatternScanning.{hpp,cpp}).             *)
(*                                                                         *)
(* Bytes are naturals in 0..255.  A std::string is a sequence of           *)
(* one-character strings.  C++ indices are 0-based: At(s, k) reads the     *)
(* element the code writes s[k].                                           *)
(***************************************************************************)
EXTENDS Integers, Sequences, FiniteSets, TLC

VARIABLES
    pc,           \* "args", "constructed": Pattern construction;
                  \* "ready": pattern and buffer exist; "aborted"
    input,        \* the arguments of the Pattern constructor
    pattern,      \* the Pattern
    data,         \* the bytes behind the data pointer
    dataNull,     \* the data pointer is null
    size,         \* the size argument
    baseAddress,  \* the baseAddress argument
    bm,           \* the BoyerMooreScanner built from pattern
    call,         \* the entry point called last, with its extra arguments
    result,       \* the value that call returned
    reads         \* the number of reads of the buffer that call made

vars == <<pc, input, pattern, data, dataNull, size, baseAddress,
          bm, call, result, reads>>

(***************************************************************************)
(* Bounds of the explored inputs.                                          *)
(***************************************************************************)
MaxPatLen == 3
MaxDataLen == 4
MaxStrLen == 5

\* byte values the enumerated buffers and patterns are made of (0xAA, 0xBB)
ByteVals == {170, 187}
\* characters the enumerated pattern strings are made of
Alphabet == {" ", "?", "0", "1", "A", "a", "Z"}
\* base addresses passed to the scanners
BaseAddrs == {0, 4096}

SeqsUpTo(S, n) == UNION {[1..k -> S] : k \in 0..n}

At(s, k) == s[k + 1]

Max(a, b) == IF a > b THEN a ELSE b

(***************************************************************************)
(* struct Pattern                                                          *)
(***************************************************************************)
\* Pattern() = default: both vectors empty
EmptyPattern == [bytes |-> <<>>, mask |-> <<>>]

Size(p) == Len(p.bytes)

IsValid(p) == Len(p.bytes) # 0 /\ Len(p.bytes) = Len(p.mask)

(***************************************************************************)
(* std::istringstream >> token : whitespace-separated tokens               *)
(***************************************************************************)
\* std::isspace in the C locale: space, \t, \n, \v, \f, \r
IsSpace(c) == c \in {" ", "\t", "\n", "\f", "\r"}

RECURSIVE TokenizeFrom(_, _, _, _)
\* k: next character (1-based), cur: token being read, acc: tokens read
TokenizeFrom(str, k, cur, acc) ==
    IF k > Len(str)
    THEN IF cur = <<>> THEN acc ELSE Append(acc, cur)
    ELSE IF IsSpace(str[k])
         THEN TokenizeFrom(str, k + 1, <<>>,
                           IF cur = <<>> THEN acc ELSE Append(acc, cur))
         ELSE TokenizeFrom(str, k + 1, Append(cur, str[k]), acc)

Tokenize(str) == TokenizeFrom(str, 1, <<>>, <<>>)

(***************************************************************************)
(* std::stoul(token, nullptr, 16)                                          *)
(***************************************************************************)
HexChars == <<"0", "1", "2", "3", "4", "5", "6", "7", "8", "9",
              "A", "B", "C", "D", "E", "F">>
HexCharsLower == <<"0", "1", "2", "3", "4", "5", "6", "7", "8", "9",
                   "a", "b", "c", "d", "e", "f">>

IsHexDigit(c) == \E d \in 1..16 : HexChars[d] = c \/ HexCharsLower[d] = c

HexDigitValue(c) ==
    (CHOOSE d \in 1..16 : HexChars[d] = c \/ HexCharsLower[d] = c) - 1

\* number of hex digits an unsigned long holds (32-bit unsigned long, LLP64)
ULongHexDigits == 8

RECURSIVE HexPrefixLen(_, _)
\* number of leading hex digits of tok from position k (1-based) on
HexPrefixLen(tok, k) ==
    IF k > Len(tok) \/ ~IsHexDigit(tok[k]) THEN 0
    ELSE 1 + HexPrefixLen(tok, k + 1)

RECURSIVE HexMagnitude(_, _, _, _)
\* value of the n digits of tok starting at k; sig counts the digits after
\* the leading zeros; more than ULongHexDigits of them overflow (ERANGE)
HexMagnitude(tok, k, n, acc) ==
    IF n = 0 THEN acc
    ELSE LET d == HexDigitValue(tok[k])
             s == IF acc.sig = 0 /\ d = 0 THEN 0 ELSE acc.sig + 1
         IN  IF s > ULongHexDigits
             THEN [value |-> 0, sig |-> s, overflow |-> TRUE]
             ELSE HexMagnitude(tok, k + 1, n - 1,
                     [value |-> acc.value * 16 + d, sig |-> s,
                      overflow |-> FALSE])

\* [ok |-> FALSE] models the exception (invalid_argument / out_of_range);
\* otherwise the unsigned long is value, negated modulo 2^w when neg.
\* Parsing stops at the first non-digit: trailing characters are ignored,
\* the caller passes no position pointer.
Stoul16(tok) ==
    LET signLen == IF Len(tok) >= 1 /\ tok[1] \in {"+", "-"} THEN 1 ELSE 0
        neg     == signLen = 1 /\ tok[1] = "-"
        hasPfx  == /\ Len(tok) >= signLen + 3
                   /\ tok[signLen + 1] = "0"
                   /\ tok[signLen + 2] \in {"x", "X"}
                   /\ IsHexDigit(tok[signLen + 3])
        start   == signLen + (IF hasPfx THEN 2 ELSE 0) + 1
        n       == HexPrefixLen(tok, start)
        mag     == HexMagnitude(tok, start, n,
                                [value |-> 0, sig |-> 0, overflow |-> FALSE])
    IN  IF n = 0 \/ mag.overflow
        THEN [ok |-> FALSE, neg |-> FALSE, value |-> 0]
        ELSE [ok |-> TRUE, neg |-> neg, value |-> mag.value]

\* static_cast<uint8_t>(unsigned long)
ToUint8(r) == IF r.neg THEN (256 - (r.value % 256)) % 256 ELSE r.value % 256

(***************************************************************************)
(* Pattern::Pattern(const std::string&)                                    *)
(***************************************************************************)
\* a mutation of IsWildcardToken: only "??" is taken as a wildcard
IsWildcardToken_OnlyDouble(tok) == tok = <<"?", "?">>

\* token == "?" || token == "??"
IsWildcardToken(tok) == tok = <<"?">> \/ tok = <<"?", "?">>

RECURSIVE ParseTokens(_, _, _)
\* the while loop over the tokens; k is the next token (1-based)
ParseTokens(toks, k, p) ==
    IF k > Len(toks) THEN p
    ELSE IF IsWildcardToken(toks[k])
         THEN ParseTokens(toks, k + 1,
                 [bytes |-> Append(p.bytes, 0), mask |-> Append(p.mask, FALSE)])
         ELSE LET r == Stoul16(toks[k])
              IN  IF r.ok
                  THEN ParseTokens(toks, k + 1,
                          [bytes |-> Append(p.bytes, ToUint8(r)),
                           mask  |-> Append(p.mask, TRUE)])
                  ELSE EmptyPattern          \* clear both, break

Pattern_FromString(str) == ParseTokens(Tokenize(str), 1, EmptyPattern)

(***************************************************************************)
(* Pattern::Pattern(bytes, mask)                                           *)
(***************************************************************************)
\* a mutation of Pattern_FromBytes: a length mismatch clears the bytes only
Pattern_FromBytes_KeepMask(bytes, mask) ==
    IF Len(bytes) # Len(mask) THEN [bytes |-> <<>>, mask |-> mask]
    ELSE [bytes |-> bytes, mask |-> mask]

Pattern_FromBytes(bytes, mask) ==
    IF Len(bytes) # Len(mask) THEN EmptyPattern
    ELSE [bytes |-> bytes, mask |-> mask]

(***************************************************************************)
(* struct ScanResult                                                       *)
(***************************************************************************)
\* ScanResult()
NotFound == [address |-> 0, offset |-> 0, found |-> FALSE]

\* a mutation of ScanResultAt: offset is initialised from addr
ScanResultAt_OffsetFromAddr(addr, off) ==
    [address |-> addr, offset |-> addr, found |-> TRUE]

\* ScanResult(addr, off)
ScanResultAt(addr, off) == [address |-> addr, offset |-> off, found |-> TRUE]

(***************************************************************************)
(* SimpleScanner.  Every scanner operator returns [ret, reads]: the value  *)
(* returned and the number of reads of the data buffer it made.            *)
(***************************************************************************)
RECURSIVE MatchesPatternFrom(_, _, _, _)
MatchesPatternFrom(p, d, offset, i) ==
    IF i >= Size(p) THEN [match |-> TRUE, reads |-> 0]
    ELSE IF ~At(p.mask, i) THEN MatchesPatternFrom(p, d, offset, i + 1)
    ELSE IF At(d, offset + i) # At(p.bytes, i)
         THEN [match |-> FALSE, reads |-> 1]
         ELSE LET r == MatchesPatternFrom(p, d, offset, i + 1)
              IN  [match |-> r.match, reads |-> r.reads + 1]

\* a mutation of MatchesPattern: the loop starts at index 1
MatchesPattern_SkipFirst(p, d, offset) == MatchesPatternFrom(p, d, offset, 1)

MatchesPattern(p, d, offset) == MatchesPatternFrom(p, d, offset, 0)

RECURSIVE SimpleScanFrom(_, _, _, _, _)
SimpleScanFrom(p, d, sz, base, i) ==
    IF i > sz - Size(p) THEN [ret |-> NotFound, reads |-> 0]
    ELSE LET m == MatchesPattern(p, d, i)
         IN  IF m.match
             THEN [ret |-> ScanResultAt(base + i, i), reads |-> m.reads]
             ELSE LET r == SimpleScanFrom(p, d, sz, base, i + 1)
                  IN  [ret |-> r.ret, reads |-> r.reads + m.reads]

\* a mutation of SimpleScanner_Scan: the guard does not test IsValid()
SimpleScanner_Scan_NoValidCheck(p, d, isNull, sz, base) ==
    IF isNull \/ sz < Size(p)
    THEN [ret |-> NotFound, reads |-> 0]
    ELSE SimpleScanFrom(p, d, sz, base, 0)

SimpleScanner_Scan(p, d, isNull, sz, base) ==
    IF ~IsValid(p) \/ isNull \/ sz < Size(p)
    THEN [ret |-> NotFound, reads |-> 0]
    ELSE SimpleScanFrom(p, d, sz, base, 0)

RECURSIVE SimpleScanAllFrom(_, _, _, _, _)
SimpleScanAllFrom(p, d, sz, base, i) ==
    IF i > sz - Size(p) THEN [ret |-> <<>>, reads |-> 0]
    ELSE LET m == MatchesPattern(p, d, i)
             r == SimpleScanAllFrom(p, d, sz, base, i + 1)
         IN  [ret   |-> IF m.match
                        THEN <<ScanResultAt(base + i, i)>> \o r.ret
                        ELSE r.ret,
              reads |-> r.reads + m.reads]

\* a mutation of SimpleScanner_ScanAll: the loop runs while i < size - Size()
SimpleScanner_ScanAll_ShortLoop(p, d, isNull, sz, base) ==
    IF ~IsValid(p) \/ isNull \/ sz < Size(p)
    THEN [ret |-> <<>>, reads |-> 0]
    ELSE SimpleScanAllFrom(p, d, sz - 1, base, 0)

SimpleScanner_ScanAll(p, d, isNull, sz, base) ==
    IF ~IsValid(p) \/ isNull \/ sz < Size(p)
    THEN [ret |-> <<>>, reads |-> 0]
    ELSE SimpleScanAllFrom(p, d, sz, base, 0)

(***************************************************************************)
(* BoyerMooreScanner: table construction                                   *)
(***************************************************************************)
RECURSIVE BadCharFrom(_, _, _)
BadCharFrom(p, i, t) ==
    IF i >= Size(p) - 1 THEN t
    ELSE BadCharFrom(p, i + 1,
            IF At(p.mask, i)
            THEN [t EXCEPT ![At(p.bytes, i)] = Size(p) - 1 - i]
            ELSE t)

\* badCharTable_.resize(256, Size), then one entry per exact position but the
\* last
BuildBadCharTable(p) == BadCharFrom(p, 0, [c \in 0..255 |-> Size(p)])

\* goodSuffixTable_[k] as the code reads it: an index outside the vector
\* reads whatever lies behind it on the heap (garbage)
GsRead(st, k) == IF k \in DOMAIN st.gs THEN st.gs[k] ELSE st.garbage

\* goodSuffixTable_[k] = v: a write outside the vector lands behind it and
\* leaves the table as it is; gsAccess records every index used
GsWrite(st, k, v) ==
    IF k \in DOMAIN st.gs
    THEN [st EXCEPT !.gs = [@ EXCEPT ![k] = v],
                    !.gsAccess = @ \cup {k}]
    ELSE [st EXCEPT !.gsAccess = @ \cup {k}]

RECURSIVE GsInner(_, _)
\* the inner while loop of the border pass
GsInner(p, st) ==
    LET m == Size(p)
    IN  IF /\ st.j <= m
           /\ \/ st.j = m
              \/ ~At(p.mask, st.i - 1)
              \/ ~At(p.mask, st.j - 1)
              \/ At(p.bytes, st.i - 1) # At(p.bytes, st.j - 1)
        THEN LET s1 == IF GsRead(st, st.j - 1) = m
                       THEN GsWrite(st, st.j - 1, st.j - st.i)
                       ELSE [st EXCEPT !.gsAccess = @ \cup {st.j - 1}]
             IN  GsInner(p, [s1 EXCEPT !.j = s1.border[s1.j],
                                       !.borderAccess = @ \cup {s1.j}])
        ELSE st

RECURSIVE GsBorderPass(_, _)
\* while (i > 0) { inner loop; i--; j--; borderTable[i] = j; }
GsBorderPass(p, st) ==
    IF st.i > 0
    THEN LET s1 == GsInner(p, st)
         IN  GsBorderPass(p,
                [s1 EXCEPT !.i = s1.i - 1,
                           !.j = s1.j - 1,
                           !.border = [@ EXCEPT ![s1.i - 1] = s1.j - 1],
                           !.borderAccess = @ \cup {s1.i - 1}])
    ELSE st

RECURSIVE GsCompletePass(_, _)
\* for (i = 0; i <= patternLength; i++): the last round indexes
\* goodSuffixTable_[patternLength], one past the end of the vector
GsCompletePass(p, st) ==
    LET m == Size(p)
    IN  IF st.i <= m
        THEN LET s1 == IF GsRead(st, st.i) = m
                       THEN GsWrite(st, st.i, st.j)
                       ELSE [st EXCEPT !.gsAccess = @ \cup {st.i}]
                 s2 == IF s1.i = s1.j
                       THEN [s1 EXCEPT !.j = s1.border[s1.j],
                                       !.borderAccess = @ \cup {s1.j}]
                       ELSE s1
             IN  GsCompletePass(p, [s2 EXCEPT !.i = s2.i + 1])
        ELSE st

\* returns the table with the indices the construction used
BuildGoodSuffixTable(p, garbage) ==
    LET m  == Size(p)
        s0 == [i |-> m, j |-> m + 1,
               gs |-> [k \in 0..(m - 1) |-> m],
               border |-> [[k \in 0..m |-> 0] EXCEPT ![m] = m + 1],
               gsAccess |-> {}, borderAccess |-> {m},
               garbage |-> garbage]
        s1 == GsBorderPass(p, s0)
        s2 == GsCompletePass(p, [s1 EXCEPT !.i = 0, !.j = s1.border[0],
                                           !.borderAccess = @ \cup {0}])
    IN  [table |-> s2.gs, gsAccess |-> s2.gsAccess,
         borderAccess |-> s2.borderAccess]

\* no scanner constructed yet
NoScanner ==
    [state |-> "none", pattern_ |-> EmptyPattern,
     badCharTable_ |-> <<>>, goodSuffixTable_ |-> <<>>,
     gsAccess |-> {}, borderAccess |-> {}]

\* BoyerMooreScanner::BoyerMooreScanner(pattern): the tables are built for a
\* valid pattern only
BoyerMooreScanner_New(p, garbage) ==
    IF IsValid(p)
    THEN LET g == BuildGoodSuffixTable(p, garbage)
         IN  [state |-> "built", pattern_ |-> p,
              badCharTable_ |-> BuildBadCharTable(p),
              goodSuffixTable_ |-> g.table,
              gsAccess |-> g.gsAccess, borderAccess |-> g.borderAccess]
    ELSE [NoScanner EXCEPT !.state = "built", !.pattern_ = p]

(***************************************************************************)
(* BoyerMooreScanner::Scan / ScanAll                                       *)
(***************************************************************************)
RECURSIVE BMCompare(_, _, _, _)
\* the right-to-left comparison at one alignment: the j the loop stops at
BMCompare(p, d, shift, j) ==
    IF j < 0 THEN [j |-> j, reads |-> 0]
    ELSE IF ~At(p.mask, j) THEN BMCompare(p, d, shift, j - 1)
    ELSE IF At(p.bytes, j) = At(d, shift + j)
         THEN LET r == BMCompare(p, d, shift, j - 1)
              IN  [j |-> r.j, reads |-> r.reads + 1]
         ELSE [j |-> j, reads |-> 1]

\* the advance after a mismatch at j taken from the bad-character table alone
BMMismatchShift_BadCharOnly(s, d, shift, j) ==
    LET badCharShift == s.badCharTable_[At(d, shift + j)]
                          - Size(s.pattern_) + 1 + j
    IN  IF badCharShift > 0 THEN badCharShift ELSE 0

\* shift += max(badCharShift, goodSuffixShift) after a mismatch at j
BMMismatchShift(s, d, shift, j) ==
    LET patternLength   == Size(s.pattern_)
        badCharShift    == s.badCharTable_[At(d, shift + j)]
                             - patternLength + 1 + j
        goodSuffixShift == s.goodSuffixTable_[j]
    IN  IF badCharShift > goodSuffixShift THEN badCharShift
        ELSE goodSuffixShift

RECURSIVE BMScanFrom(_, _, _, _, _)
BMScanFrom(s, d, sz, base, shift) ==
    LET patternLength == Size(s.pattern_)
    IN  IF shift > sz - patternLength THEN [ret |-> NotFound, reads |-> 0]
        ELSE LET c == BMCompare(s.pattern_, d, shift, patternLength - 1)
             IN  IF c.j < 0
                 THEN [ret |-> ScanResultAt(base + shift, shift),
                       reads |-> c.reads]
                 ELSE LET r == BMScanFrom(s, d, sz, base,
                                  shift + BMMismatchShift(s, d, shift, c.j))
                      IN  [ret |-> r.ret, reads |-> r.reads + c.reads + 1]

BoyerMooreScanner_Scan(s, d, isNull, sz, base) ==
    IF ~IsValid(s.pattern_) \/ isNull \/ sz < Size(s.pattern_)
    THEN [ret |-> NotFound, reads |-> 0]
    ELSE BMScanFrom(s, d, sz, base, 0)

\* the advance after a full match at shift
BMMatchShift(s, sz, shift) ==
    IF shift + Size(s.pattern_) < sz THEN s.goodSuffixTable_[0] ELSE 1

RECURSIVE BMScanAllFrom(_, _, _, _, _)
BMScanAllFrom(s, d, sz, base, shift) ==
    LET patternLength == Size(s.pattern_)
    IN  IF shift > sz - patternLength THEN [ret |-> <<>>, reads |-> 0]
        ELSE LET c == BMCompare(s.pattern_, d, shift, patternLength - 1)
             IN  IF c.j < 0
                 THEN LET r == BMScanAllFrom(s, d, sz, base,
                                  shift + BMMatchShift(s, sz, shift))
                      IN  [ret |-> <<ScanResultAt(base + shift, shift)>>
                                     \o r.ret,
                           reads |-> r.reads + c.reads]
                 ELSE LET r == BMScanAllFrom(s, d, sz, base,
                                  shift + BMMismatchShift(s, d, shift, c.j))
                      IN  [ret |-> r.ret, reads |-> r.reads + c.reads + 1]

BoyerMooreScanner_ScanAll(s, d, isNull, sz, base) ==
    IF ~IsValid(s.pattern_) \/ isNull \/ sz < Size(s.pattern_)
    THEN [ret |-> <<>>, reads |-> 0]
    ELSE BMScanAllFrom(s, d, sz, base, 0)

(***************************************************************************)
(* SIMDScanner::FastScan                                                   *)
(***************************************************************************)
RECURSIVE FastMatchFrom(_, _, _, _)
\* the inner for loop: compares until the first difference
FastMatchFrom(bytes, d, i, j) ==
    IF j >= Len(bytes) THEN [match |-> TRUE, reads |-> 0]
    ELSE IF At(d, i + j) # At(bytes, j) THEN [match |-> FALSE, reads |-> 1]
    ELSE LET r == FastMatchFrom(bytes, d, i, j + 1)
         IN  [match |-> r.match, reads |-> r.reads + 1]

RECURSIVE FastScanFrom(_, _, _, _, _)
FastScanFrom(bytes, d, sz, base, i) ==
    IF i > sz - Len(bytes) THEN [ret |-> NotFound, reads |-> 0]
    ELSE LET m == FastMatchFrom(bytes, d, i, 0)
         IN  IF m.match
             THEN [ret |-> ScanResultAt(base + i, i), reads |-> m.reads]
             ELSE LET r == FastScanFrom(bytes, d, sz, base, i + 1)
                  IN  [ret |-> r.ret, reads |-> r.reads + m.reads]

\* FastScan rejecting a buffer that holds the pattern and nothing else
SIMDScanner_FastScan_StrictSize(bytes, d, isNull, sz, base) ==
    IF Len(bytes) = 0 \/ isNull \/ sz <= Len(bytes)
    THEN [ret |-> NotFound, reads |-> 0]
    ELSE FastScanFrom(bytes, d, sz, base, 0)

SIMDScanner_FastScan(bytes, d, isNull, sz, base) ==
    IF Len(bytes) = 0 \/ isNull \/ sz < Len(bytes)
    THEN [ret |-> NotFound, reads |-> 0]
    ELSE FastScanFrom(bytes, d, sz, base, 0)

(***************************************************************************)
(* Advanced::FuzzyScan.  A float is a fraction [num, den] with den > 0:    *)
(* the similarities are quotients of small integers, which the float       *)
(* division and comparisons order as the fractions are ordered.            *)
(***************************************************************************)
Frac(n, d) == [num |-> n, den |-> d]

\* a > b taken for a >= b
FracLess_OrEqual(a, b) == a.num * b.den <= b.num * a.den

FracLess(a, b) == a.num * b.den < b.num * a.den

\* a >= b taken for a > b
FracLeq_Strict(a, b) == a.num * b.den < b.num * a.den

FracLeq(a, b) == a.num * b.den <= b.num * a.den

\* FuzzyResult()
FuzzyNotFound ==
    [address |-> 0, offset |-> 0, similarity |-> Frac(0, 1), found |-> FALSE]

\* FuzzyResult(addr, off, sim)
FuzzyResultAt(addr, off, sim) ==
    [address |-> addr, offset |-> off, similarity |-> sim, found |-> TRUE]

RECURSIVE FuzzyCount_CountsWildcards(_, _, _, _)
\* the inner loop with totalChecks++ outside the test of the mask
FuzzyCount_CountsWildcards(p, d, i, j) ==
    IF j >= Size(p) THEN [matches |-> 0, totalChecks |-> 0, reads |-> 0]
    ELSE LET r == FuzzyCount_CountsWildcards(p, d, i, j + 1)
         IN  IF At(p.mask, j)
             THEN [matches |-> r.matches +
                       (IF At(d, i + j) = At(p.bytes, j) THEN 1 ELSE 0),
                   totalChecks |-> r.totalChecks + 1,
                   reads |-> r.reads + 1]
             ELSE [r EXCEPT !.totalChecks = @ + 1]

RECURSIVE FuzzyCount(_, _, _, _)
\* the inner for loop: matches and totalChecks at alignment i
FuzzyCount(p, d, i, j) ==
    IF j >= Size(p) THEN [matches |-> 0, totalChecks |-> 0, reads |-> 0]
    ELSE LET r == FuzzyCount(p, d, i, j + 1)
         IN  IF At(p.mask, j)
             THEN [matches |-> r.matches +
                       (IF At(d, i + j) = At(p.bytes, j) THEN 1 ELSE 0),
                   totalChecks |-> r.totalChecks + 1,
                   reads |-> r.reads + 1]
             ELSE r

RECURSIVE FuzzyScanFrom(_, _, _, _, _, _, _, _)
FuzzyScanFrom(p, d, sz, th, base, i, bestSimilarity, bestOffset) ==
    IF i > sz - Size(p)
    THEN [ret |-> IF FracLess(Frac(0, 1), bestSimilarity)
                  THEN FuzzyResultAt(base + bestOffset, bestOffset,
                                     bestSimilarity)
                  ELSE FuzzyNotFound,
          reads |-> 0]
    ELSE LET c == FuzzyCount(p, d, i, 0)
         IN  IF c.totalChecks > 0
             THEN LET similarity == Frac(c.matches, c.totalChecks)
                      better     == FracLess(bestSimilarity, similarity)
                  IN  IF FracLeq(th, similarity)
                      THEN [ret |-> FuzzyResultAt(base + i, i, similarity),
                            reads |-> c.reads]
                      ELSE LET r == FuzzyScanFrom(p, d, sz, th, base, i + 1,
                                      IF better THEN similarity
                                      ELSE bestSimilarity,
                                      IF better THEN i ELSE bestOffset)
                           IN  [ret |-> r.ret, reads |-> r.reads + c.reads]
             ELSE FuzzyScanFrom(p, d, sz, th, base, i + 1,
                                bestSimilarity, bestOffset)

Advanced_FuzzyScan(p, d, isNull, sz, th, base) ==
    IF \/ ~IsValid(p) \/ isNull \/ sz < Size(p)
       \/ FracLess(th, Frac(0, 1)) \/ FracLess(Frac(1, 1), th)
    THEN [ret |-> FuzzyNotFound, reads |-> 0]
    ELSE FuzzyScanFrom(p, d, sz, th, base, 0, Frac(0, 1), 0)

(***************************************************************************)
(* Inputs                                                                  *)
(***************************************************************************)
NoInput == [kind |-> "none", str |-> <<>>, bytes |-> <<>>, mask |-> <<>>]

NoCall == [op |-> "none"]

StringInputs ==
    {[kind |-> "string", str |-> s, bytes |-> <<>>, mask |-> <<>>] :
        s \in SeqsUpTo(Alphabet, MaxStrLen)}

BytesInputs ==
    {[kind |-> "bytes", str |-> <<>>, bytes |-> b, mask |-> m] :
        b \in SeqsUpTo(ByteVals, MaxPatLen),
        m \in SeqsUpTo(BOOLEAN, MaxPatLen)}

\* the patterns the scanners are given: Pattern(bytes, mask) of exact bytes
\* and of wildcards, which hold 0x00 as in a pattern parsed from a string;
\* the empty pattern is the invalid one
ScanPatterns ==
    {Pattern_FromBytes(b, [k \in DOMAIN b |-> b[k] # 0]) :
        b \in SeqsUpTo(ByteVals \cup {0}, MaxPatLen)}

\* the test buffer of TestSimpleScanner and the pattern "48 8B 05"
SampleBuffer ==
    <<144, 144, 144, 72, 139, 5, 18, 52, 86, 120, 255, 255, 255, 255,
      232, 0, 0, 0, 0, 144, 144, 72, 139, 5, 171, 205, 239, 1, 195>>

SamplePattern ==
    Pattern_FromString(<<"4", "8", " ", "8", "B", " ", "0", "5">>)

\* thresholds passed to FuzzyScan: below 0, inside [0,1], above 1
Thresholds == {Frac(0 - 1, 2), Frac(1, 2), Frac(1, 1), Frac(3, 2)}

(***************************************************************************)
(* Pattern construction (specification SpecPattern)                        *)
(***************************************************************************)
InitPattern ==
    /\ pc = "args"
    /\ input \in StringInputs \cup BytesInputs
    /\ pattern = EmptyPattern
    /\ data = <<>>
    /\ dataNull = TRUE
    /\ size = 0
    /\ baseAddress = 0
    /\ bm = NoScanner
    /\ call = NoCall
    /\ result = NotFound
    /\ reads = 0

NewPatternFromString ==
    /\ pc = "args"
    /\ input.kind = "string"
    /\ pattern' = Pattern_FromString(input.str)
    /\ pc' = "constructed"
    /\ UNCHANGED <<input, data, dataNull, size, baseAddress, bm, call,
                   result, reads>>

NewPatternFromBytes ==
    /\ pc = "args"
    /\ input.kind = "bytes"
    /\ pattern' = Pattern_FromBytes(input.bytes, input.mask)
    /\ pc' = "constructed"
    /\ UNCHANGED <<input, data, dataNull, size, baseAddress, bm, call,
                   result, reads>>

NextPattern == NewPatternFromString \/ NewPatternFromBytes

SpecPattern == InitPattern /\ [][NextPattern]_vars

(***************************************************************************)
(* Scanning (specification Spec)                                           *)
(***************************************************************************)
Init ==
    /\ pc = "ready"
    /\ input = NoInput
    /\ \/ /\ pattern \in ScanPatterns
          /\ dataNull \in BOOLEAN
          /\ IF dataNull
             THEN data = <<>> /\ size \in {0, MaxDataLen}
             ELSE data \in SeqsUpTo(ByteVals, MaxDataLen) /\ size = Len(data)
          /\ baseAddress \in BaseAddrs
       \/ /\ pattern = SamplePattern
          /\ dataNull = FALSE
          /\ data = SampleBuffer
          /\ size = Len(data)
          /\ baseAddress = 4096
    /\ bm = NoScanner
    /\ call = NoCall
    /\ result = NotFound
    /\ reads = 0

\* BoyerMooreScanner scanner(pattern).  The read one past the end of
\* goodSuffixTable_ is undefined: it yields a value equal to the pattern
\* length or not, and a build with checked vector indexing stops there.
NewBoyerMooreScanner ==
    /\ pc = "ready"
    /\ bm.state = "none"
    /\ \E garbage \in {Size(pattern), Size(pattern) + 1}, checked \in BOOLEAN :
          LET s == BoyerMooreScanner_New(pattern, garbage)
          IN  IF checked /\ ~(s.gsAccess \subseteq DOMAIN s.goodSuffixTable_)
              THEN /\ pc' = "aborted"
                   /\ bm' = bm
              ELSE /\ pc' = pc
                   /\ bm' = s
    /\ UNCHANGED <<input, pattern, data, dataNull, size, baseAddress, call,
                   result, reads>>

Returns(c, r) ==
    /\ call' = c
    /\ result' = r.ret
    /\ reads' = r.reads
    /\ UNCHANGED <<pc, input, pattern, data, dataNull, size, baseAddress, bm>>

CallSimpleScan ==
    /\ pc = "ready"
    /\ Returns([op |-> "SimpleScanner::Scan"],
               SimpleScanner_Scan(pattern, data, dataNull, size, baseAddress))

CallSimpleScanAll ==
    /\ pc = "ready"
    /\ Returns([op |-> "SimpleScanner::ScanAll"],
               SimpleScanner_ScanAll(pattern, data, dataNull, size,
                                     baseAddress))

CallBMScan ==
    /\ pc = "ready"
    /\ bm.state = "built"
    /\ Returns([op |-> "BoyerMooreScanner::Scan"],
               BoyerMooreScanner_Scan(bm, data, dataNull, size, baseAddress))

CallBMScanAll ==
    /\ pc = "ready"
    /\ bm.state = "built"
    /\ Returns([op |-> "BoyerMooreScanner::ScanAll"],
               BoyerMooreScanner_ScanAll(bm, data, dataNull, size,
                                         baseAddress))

CallFastScan ==
    /\ pc = "ready"
    /\ Returns([op |-> "SIMDScanner::FastScan"],
               SIMDScanner_FastScan(pattern.bytes, data, dataNull, size,
                                    baseAddress))

CallFuzzyScan ==
    /\ pc = "ready"
    /\ \E th \in Thresholds :
          Returns([op |-> "Advanced::FuzzyScan", threshold |-> th],
                  Advanced_FuzzyScan(pattern, data, dataNull, size, th,
                                     baseAddress))

Next ==
    \/ NewBoyerMooreScanner
    \/ CallSimpleScan
    \/ CallSimpleScanAll
    \/ CallBMScan
    \/ CallBMScanAll
    \/ CallFastScan
    \/ CallFuzzyScan

Spec == Init /\ [][Next]_vars

(***************************************************************************)
(* Properties.  The masked predicate is stated here as the specification   *)
(* states it, independently of the scanners' loops.                        *)
(***************************************************************************)
\* pattern p occurs at offset i of buffer d: every exact position agrees
MaskedPredicate(p, d, i) ==
    \A j \in 0..(Size(p) - 1) : At(p.mask, j) => At(d, i + j) = At(p.bytes, j)

\* the offsets of the buffer at which the pattern occurs
MatchOffsets ==
    IF dataNull THEN {}
    ELSE {i \in 0..(size - Size(pattern)) : MaskedPredicate(pattern, data, i)}

MinOf(S) == CHOOSE x \in S : \A y \in S : x <= y

NoWildcards(p) == \A j \in 1..Len(p.mask) : p.mask[j]

OffsetsOf(list) == {list[k].offset : k \in 1..Len(list)}

\* a reported hit is sound for a pattern of length n occurring as occurs(i)
SoundHit(r, n, occurs(_)) ==
    /\ r.found
    /\ r.address = baseAddress + r.offset
    /\ r.offset + n <= size
    /\ occurs(r.offset)

\* C1: for a valid pattern without wildcards BoyerMooreScanner::Scan returns
\* what SimpleScanner::Scan returns: found at the same first offset, or both
\* not found.
C1_ScannerAgreement ==
    (/\ call.op = "BoyerMooreScanner::Scan"
     /\ IsValid(pattern)
     /\ NoWildcards(pattern))
    => result = SimpleScanner_Scan(pattern, data, dataNull, size,
                                   baseAddress).ret

\* C2: for a valid pattern BoyerMooreScanner::ScanAll returns every offset at
\* which the masked predicate holds, overlapping matches included, the list
\* SimpleScanner::ScanAll returns.
C2_BMScanAllComplete ==
    (call.op = "BoyerMooreScanner::ScanAll" /\ IsValid(pattern))
    => /\ OffsetsOf(result) = MatchOffsets
       /\ result = SimpleScanner_ScanAll(pattern, data, dataNull, size,
                                         baseAddress).ret

\* C3: for a valid pattern with wildcard positions that occurs in the buffer,
\* BoyerMooreScanner::Scan returns found at the lowest offset at which the
\* masked predicate holds.
C3_BMWildcardFirstMatch ==
    (/\ call.op = "BoyerMooreScanner::Scan"
     /\ IsValid(pattern)
     /\ ~NoWildcards(pattern)
     /\ MatchOffsets # {})
    => /\ result.found
       /\ result.offset = MinOf(MatchOffsets)

\* C4: for a valid pattern and a buffer, SimpleScanner::Scan returns found at
\* the smallest offset in [0, size-Size()] at which the masked predicate
\* holds, with address baseAddress + offset, and the not-found value exactly
\* when there is no such offset.
C4_SimpleScanFirstMatch ==
    (/\ call.op = "SimpleScanner::Scan"
     /\ IsValid(pattern)
     /\ ~dataNull)
    => IF MatchOffsets = {}
       THEN result = NotFound
       ELSE /\ result.found
            /\ result.offset = MinOf(MatchOffsets)
            /\ result.address = baseAddress + result.offset

\* C4 witness: SimpleScanner::Scan found a pattern with a wildcard at an
\* offset that is not the first alignment
C4_Witness ==
    /\ call.op = "SimpleScanner::Scan"
    /\ IsValid(pattern)
    /\ ~NoWildcards(pattern)
    /\ result.found
    /\ result.offset = 2
    /\ Cardinality(MatchOffsets) = 1

\* C5: for a valid pattern and a buffer, SimpleScanner::ScanAll returns
\* exactly the offsets at which the masked predicate holds, each once, in
\* strictly ascending order, overlapping matches included: "AA AA" over
\* [AA, AA, AA] gives offsets 0 and 1, "48 8B 05" over the sample buffer
\* gives offsets 3 and 21.
C5_SimpleScanAllExact ==
    (/\ call.op = "SimpleScanner::ScanAll"
     /\ IsValid(pattern)
     /\ ~dataNull)
    => /\ OffsetsOf(result) = MatchOffsets
       /\ \A k \in 1..Len(result) :
             /\ result[k].found
             /\ result[k].address = baseAddress + result[k].offset
             /\ k > 1 => result[k - 1].offset < result[k].offset
       /\ (/\ pattern = [bytes |-> <<170, 170>>, mask |-> <<TRUE, TRUE>>]
           /\ data = <<170, 170, 170>>)
          => /\ Len(result) = 2
             /\ result[1].offset = 0
             /\ result[2].offset = 1
       /\ (pattern = SamplePattern /\ data = SampleBuffer)
          => /\ Len(result) = 2
             /\ result[1].offset = 3
             /\ result[2].offset = 21

\* C5 witness: SimpleScanner::ScanAll reported two overlapping matches
C5_Witness ==
    /\ call.op = "SimpleScanner::ScanAll"
    /\ Size(pattern) = 2
    /\ Len(result) >= 2
    /\ result[2].offset = result[1].offset + 1

\* C6: every hit a scanner reports is sound: found is true, address is
\* baseAddress + offset, the pattern fits in the buffer at offset, and the
\* masked predicate (for FastScan: equality with the bytes) holds there.
C6_HitsAreSound ==
    LET occurs(i)      == MaskedPredicate(pattern, data, i)
        occursExact(i) == \A j \in 0..(Size(pattern) - 1) :
                              At(data, i + j) = At(pattern.bytes, j)
    IN  /\ call.op \in {"SimpleScanner::Scan", "BoyerMooreScanner::Scan"}
           => (result.found => SoundHit(result, Size(pattern), occurs))
        /\ call.op \in {"SimpleScanner::ScanAll", "BoyerMooreScanner::ScanAll"}
           => \A k \in 1..Len(result) :
                 SoundHit(result[k], Size(pattern), occurs)
        /\ call.op = "SIMDScanner::FastScan"
           => (result.found
                  => SoundHit(result, Len(pattern.bytes), occursExact))

\* C6 witness: BoyerMooreScanner::ScanAll reported hits at a non-zero base
C6_Witness ==
    /\ call.op = "BoyerMooreScanner::ScanAll"
    /\ baseAddress > 0
    /\ Len(result) >= 2
    /\ ~NoWildcards(pattern)

\* the not-found value of the entry point called
EmptyResultOf(c) ==
    IF c.op \in {"SimpleScanner::ScanAll", "BoyerMooreScanner::ScanAll"}
    THEN <<>>
    ELSE IF c.op = "Advanced::FuzzyScan" THEN FuzzyNotFound
    ELSE NotFound

\* C7: with an invalid or empty pattern, a null data pointer, size 0 or a
\* pattern longer than the buffer, every scan entry point returns without
\* reading the buffer: the not-found value, or the empty list.
C7_RejectedInputs ==
    (/\ call.op # "none"
     /\ \/ ~IsValid(pattern)
        \/ dataNull
        \/ size = 0
        \/ Size(pattern) > size)
    => /\ reads = 0
       /\ result = EmptyResultOf(call)

\* C7 witness: BoyerMooreScanner::Scan was given a null pointer with a
\* non-zero size and a valid pattern that would fit
C7_Witness ==
    /\ call.op = "BoyerMooreScanner::Scan"
    /\ IsValid(pattern)
    /\ dataNull
    /\ size >= Size(pattern)
    /\ result = NotFound

(***************************************************************************)
(* Properties of Pattern construction.  The tokens of a string are stated  *)
(* here by their positions, independently of the constructor's loop.       *)
(***************************************************************************)
\* the positions at which a token of str starts
TokenStarts(str) ==
    {k \in 1..Len(str) : str[k] # " " /\ (k = 1 \/ str[k - 1] = " ")}

\* the token of str that starts at k
TokenAt(str, k) ==
    LET e == CHOOSE x \in k..Len(str) :
                 /\ \A y \in k..x : str[y] # " "
                 /\ x = Len(str) \/ str[x + 1] = " "
    IN  SubSeq(str, k, e)

\* the position at which the n-th token of str starts
NthStart(str, n) ==
    CHOOSE k \in TokenStarts(str) :
        Cardinality({x \in TokenStarts(str) : x <= k}) = n

WildcardTok(t) == t = <<"?">> \/ t = <<"?", "?">>

TwoHexTok(t) == Len(t) = 2 /\ IsHexDigit(t[1]) /\ IsHexDigit(t[2])

\* t is written in hex digits only and its value is at most 255
ByteValueTok(t) ==
    /\ \A x \in 1..Len(t) : IsHexDigit(t[x])
    /\ \A x \in 1..(Len(t) - 2) : t[x] = "0"

\* C8: for a non-empty stream of tokens that are each two hex digits or a
\* wildcard `?`/`??`, Pattern(str) is valid, Size() is the number of tokens,
\* mask is false exactly at the wildcard tokens (with byte 0x00 there) and
\* the other bytes are the hex values of their tokens.
C8_ParseCorrect ==
    (pc = "constructed" /\ input.kind = "string")
    => LET str    == input.str
           starts == TokenStarts(str)
       IN  (/\ starts # {}
            /\ \A k \in starts :
                  WildcardTok(TokenAt(str, k)) \/ TwoHexTok(TokenAt(str, k)))
           => /\ IsValid(pattern)
              /\ Size(pattern) = Cardinality(starts)
              /\ Len(pattern.mask) = Cardinality(starts)
              /\ \A n \in 1..Cardinality(starts) :
                    LET t == TokenAt(str, NthStart(str, n))
                    IN  IF WildcardTok(t)
                        THEN ~pattern.mask[n] /\ pattern.bytes[n] = 0
                        ELSE /\ pattern.mask[n]
                             /\ pattern.bytes[n] =
                                  16 * HexDigitValue(t[1]) + HexDigitValue(t[2])

\* C8 witness: a string of a hex pair and a wildcard was parsed
C8_Witness ==
    /\ pc = "constructed"
    /\ input.kind = "string"
    /\ Cardinality(TokenStarts(input.str)) = 2
    /\ pattern.mask = <<TRUE, FALSE>>
    /\ pattern.bytes = <<161, 0>>

\* C9: if the stream has any token that is not `?`, `??` or a hex value in
\* 0..255, the whole pattern is invalid: bytes and mask are both empty.
C9_FailFast ==
    (pc = "constructed" /\ input.kind = "string")
    => LET str == input.str
       IN  (\E k \in TokenStarts(str) :
               /\ ~WildcardTok(TokenAt(str, k))
               /\ ~ByteValueTok(TokenAt(str, k)))
           => /\ pattern = EmptyPattern
              /\ ~IsValid(pattern)
              /\ Size(pattern) = 0

\* C10: every Pattern has bytes and mask of one length and is valid exactly
\* when it is non-empty; Pattern(bytes, mask) keeps both sequences when
\* their lengths match and clears both when they differ.
C10_PatternInvariant ==
    /\ Len(pattern.bytes) = Len(pattern.mask)
    /\ IsValid(pattern) <=> Len(pattern.bytes) > 0
    /\ (pc = "constructed" /\ input.kind = "bytes")
       => IF Len(input.bytes) = Len(input.mask)
          THEN pattern.bytes = input.bytes /\ pattern.mask = input.mask
          ELSE /\ pattern.bytes = <<>>
               /\ pattern.mask = <<>>
               /\ ~IsValid(pattern)
               /\ Size(pattern) = 0

\* C10 witness: Pattern(bytes, mask) was given sequences of different
\* non-zero lengths
C10_Witness ==
    /\ pc = "constructed"
    /\ input.kind = "bytes"
    /\ Len(input.bytes) > Len(input.mask)
    /\ Len(input.mask) > 0
    /\ pattern = EmptyPattern

(***************************************************************************)
(* C11  SIMDScanner::FastScan against SimpleScanner::Scan                  *)
(***************************************************************************)
\* Pattern(bytes) as FastScan's caller would build it: every byte exact
AllExact(bytes) == Pattern_FromBytes(bytes, [k \in DOMAIN bytes |-> TRUE])

\* C11: for a non-empty byte vector b, FastScan(b, data, size, base) returns
\* the result (found, offset, address) that SimpleScanner::Scan returns for
\* the pattern of those bytes with no wildcard, over the same buffer
C11_FastScanAgreesWithSimple ==
    (call.op = "SIMDScanner::FastScan" /\ Len(pattern.bytes) > 0)
        => result = SimpleScanner_Scan(AllExact(pattern.bytes), data,
                                       dataNull, size, baseAddress).ret

\* FastScan found a vector of two bytes or more past offset 0 of a buffer
C11_Witness ==
    /\ call.op = "SIMDScanner::FastScan"
    /\ Len(pattern.bytes) >= 2
    /\ result.found
    /\ result.offset > 0
    /\ result.address = baseAddress + result.offset

(***************************************************************************)
(* Advanced::MultiPattern and Advanced::ScanMultiple                       *)
(* (specification SpecMulti).  A name is a sequence of characters.         *)
(***************************************************************************)
DecimalDigits == <<"0", "1", "2", "3", "4", "5", "6", "7", "8", "9">>

RECURSIVE ToStringNat(_)
\* std::to_string of a size_t: the decimal digits, most significant first
ToStringNat(n) ==
    IF n < 10 THEN <<DecimalDigits[n + 1]>>
    ELSE ToStringNat(n \div 10) \o <<DecimalDigits[(n % 10) + 1]>>

\* the literal "Pattern_"
PatternPrefix == <<"P", "a", "t", "t", "e", "r", "n", "_">>

\* a default-constructed MultiPattern
EmptyMultiPattern == [patterns |-> <<>>, names |-> <<>>]

\* AddPattern numbering the default name before the pattern is pushed
MultiPattern_AddPattern_NameFirst(mp, p, name) ==
    [patterns |-> Append(mp.patterns, p),
     names    |-> Append(mp.names,
                         IF name = <<>>
                         THEN PatternPrefix \o ToStringNat(Len(mp.patterns))
                         ELSE name)]

\* patterns.push_back(pattern); names.push_back(name.empty() ?
\* "Pattern_" + std::to_string(patterns.size()) : name)
MultiPattern_AddPattern(mp, p, name) ==
    LET pushed == Append(mp.patterns, p)
    IN  [patterns |-> pushed,
         names    |-> Append(mp.names,
                             IF name = <<>>
                             THEN PatternPrefix \o ToStringNat(Len(pushed))
                             ELSE name)]

\* the largest number of patterns handed to ScanMultiple
MaxPatterns == 3

\* the buffer size above which ScanMultiple starts one thread per pattern:
\* 1024 * 1024 in the code, scaled to the buffers enumerated here
ParallelSize == 2

\* AddPattern arguments: an unnamed one-byte pattern and a named two-byte one
MultiPool ==
    {[pattern |-> Pattern_FromString(<<"A", "A">>), name |-> <<>>],
     [pattern |-> Pattern_FromString(<<"A", "A", " ", "B", "B">>),
      name |-> <<"s", "i", "g">>]}

RECURSIVE MultiPatternOf(_)
\* the MultiPattern left by AddPattern calls with the arguments of args
MultiPatternOf(args) ==
    IF args = <<>> THEN EmptyMultiPattern
    ELSE LET last == args[Len(args)]
         IN  MultiPattern_AddPattern(MultiPatternOf(SubSeq(args, 1, Len(args) - 1)),
                                     last.pattern, last.name)

MultiInputs == {MultiPatternOf(a) : a \in SeqsUpTo(MultiPool, MaxPatterns)}

\* MultiScanResult result;
EmptyMultiScanResult == [results |-> <<>>, patternNames |-> <<>>]

\* result.results[i] = r, as results had been filled in completion order
StoreResult_CompletionOrder(results, i, r) ==
    LET free == {k \in DOMAIN results : results[k] = <<>>}
    IN  IF free = {} THEN results
        ELSE [results EXCEPT ![MinOf(free)] = r]

\* result.results[i] = r, i counting from 0
StoreResult(results, i, r) == [results EXCEPT ![i + 1] = r]

\* thread.join() returning although the thread still runs
Joinable_Detached(task) == TRUE

\* thread.join() returns once the thread's function has returned
Joinable(task) == task = "done"

\* the constructor of BoyerMooreScanner can stop the program (see
\* NewBoyerMooreScanner): TRUE when a checked build stops at its table
ConstructionStops(s, checked) ==
    checked /\ ~(s.gsAccess \subseteq DOMAIN s.goodSuffixTable_)

\* ScanMultiple(input, data, size, baseAddress) about to be called: pc.main
\* is the caller's position and pc.task[t] that of the t-th thread, bm[t] is
\* the scanner local to the t-th thread, call.i the loop counter
InitMulti ==
    /\ pc = [main |-> "call", task |-> <<>>]
    /\ input \in MultiInputs
    /\ pattern = EmptyPattern
    /\ dataNull \in BOOLEAN
    /\ IF dataNull
       THEN data = <<>> /\ size \in {0, ParallelSize + 1}
       ELSE data \in SeqsUpTo(ByteVals, ParallelSize + 1) /\ size = Len(data)
    /\ baseAddress = 4096
    /\ bm = <<>>
    /\ call = NoCall
    /\ result = EmptyMultiScanResult
    /\ reads = 0

\* resize results, copy the names, choose the path
ScanMultiple_Enter ==
    /\ pc.main = "call"
    /\ result' = [results      |-> [k \in 1..Len(input.patterns) |-> <<>>],
                  patternNames |-> input.names]
    /\ call' = [op |-> "Advanced::ScanMultiple", i |-> 0]
    /\ pc' = [pc EXCEPT !.main =
                 IF Len(input.patterns) > 1 /\ size > ParallelSize
                 THEN "spawn" ELSE "loop"]
    /\ UNCHANGED <<input, pattern, data, dataNull, size, baseAddress, bm,
                   reads>>

\* threads.emplace_back([&, i]() { ... }) of the first for loop
SpawnTask ==
    /\ pc.main = "spawn"
    /\ call.i < Len(input.patterns)
    /\ pc' = [pc EXCEPT !.task = Append(@, "start")]
    /\ bm' = Append(bm, NoScanner)
    /\ call' = [call EXCEPT !.i = @ + 1]
    /\ UNCHANGED <<input, pattern, data, dataNull, size, baseAddress, result,
                   reads>>

\* the first for loop ends, the joining loop begins
StartJoin ==
    /\ pc.main = "spawn"
    /\ call.i = Len(input.patterns)
    /\ pc' = [pc EXCEPT !.main = "join"]
    /\ call' = [call EXCEPT !.i = 0]
    /\ UNCHANGED <<input, pattern, data, dataNull, size, baseAddress, bm,
                   result, reads>>

\* thread t: BoyerMooreScanner scanner(patterns.patterns[i]), i = t - 1
TaskConstruct(t) ==
    /\ pc.main \in {"spawn", "join"}
    /\ pc.task[t] = "start"
    /\ \E garbage \in {Size(input.patterns[t]), Size(input.patterns[t]) + 1},
          checked \in BOOLEAN :
          LET s == BoyerMooreScanner_New(input.patterns[t], garbage)
          IN  IF ConstructionStops(s, checked)
              THEN /\ pc' = [pc EXCEPT !.main = "aborted"]
                   /\ bm' = bm
              ELSE /\ pc' = [pc EXCEPT !.task[t] = "built"]
                   /\ bm' = [bm EXCEPT ![t] = s]
    /\ UNCHANGED <<input, pattern, data, dataNull, size, baseAddress, call,
                   result, reads>>

\* thread t: result.results[i] = scanner.ScanAll(data, size, baseAddress)
TaskScan(t) ==
    /\ pc.main \in {"spawn", "join"}
    /\ pc.task[t] = "built"
    /\ result' = [result EXCEPT !.results =
                     StoreResult(@, t - 1,
                         BoyerMooreScanner_ScanAll(bm[t], data, dataNull,
                                                   size, baseAddress).ret)]
    /\ pc' = [pc EXCEPT !.task[t] = "done"]
    /\ UNCHANGED <<input, pattern, data, dataNull, size, baseAddress, bm,
                   call, reads>>

\* thread.join() of the second for loop
JoinTask ==
    /\ pc.main = "join"
    /\ call.i < Len(pc.task)
    /\ Joinable(pc.task[call.i + 1])
    /\ call' = [call EXCEPT !.i = @ + 1]
    /\ UNCHANGED <<pc, input, pattern, data, dataNull, size, baseAddress, bm,
                   result, reads>>

\* one round of the sequential loop: construct, scan, store
SequentialScan ==
    /\ pc.main = "loop"
    /\ call.i < Len(input.patterns)
    /\ \E garbage \in {Size(input.patterns[call.i + 1]),
                       Size(input.patterns[call.i + 1]) + 1},
          checked \in BOOLEAN :
          LET s == BoyerMooreScanner_New(input.patterns[call.i + 1], garbage)
          IN  IF ConstructionStops(s, checked)
              THEN /\ pc' = [pc EXCEPT !.main = "aborted"]
                   /\ UNCHANGED <<call, result>>
              ELSE /\ result' = [result EXCEPT !.results =
                                    StoreResult(@, call.i,
                                        BoyerMooreScanner_ScanAll(s, data,
                                            dataNull, size, baseAddress).ret)]
                   /\ call' = [call EXCEPT !.i = @ + 1]
                   /\ pc' = pc
    /\ UNCHANGED <<input, pattern, data, dataNull, size, baseAddress, bm,
                   reads>>

\* return result, after the loop of either path
ScanMultiple_Return ==
    /\ \/ pc.main = "loop" /\ call.i = Len(input.patterns)
       \/ pc.main = "join" /\ call.i = Len(pc.task)
    /\ pc' = [pc EXCEPT !.main = "returned"]
    /\ UNCHANGED <<input, pattern, data, dataNull, size, baseAddress, bm,
                   call, result, reads>>

RunTaskConstruct == \E t \in DOMAIN pc.task : TaskConstruct(t)

RunTaskScan == \E t \in DOMAIN pc.task : TaskScan(t)

NextMulti ==
    \/ ScanMultiple_Enter
    \/ SpawnTask
    \/ StartJoin
    \/ RunTaskConstruct
    \/ RunTaskScan
    \/ JoinTask
    \/ SequentialScan
    \/ ScanMultiple_Return

SpecMulti == InitMulti /\ [][NextMulti]_vars

(***************************************************************************)
(* C12  ScanMultiple: one result per pattern, in input order               *)
(***************************************************************************)
\* what BoyerMooreScanner(p).ScanAll(data, size, base) returns
ScanAllOf(p) ==
    {BoyerMooreScanner_ScanAll(BoyerMooreScanner_New(p, garbage), data,
                               dataNull, size, baseAddress).ret :
        garbage \in {Size(p), Size(p) + 1}}

\* C12: when ScanMultiple has returned, results and patternNames have one
\* entry per input pattern, the names are the input's names in order, and
\* results[i] is what BoyerMooreScanner(patterns[i]).ScanAll returns for the
\* buffer, on the sequential path and after every interleaving of the
\* threads
C12_ResultsInInputOrder ==
    pc.main = "returned" =>
        /\ Len(result.results) = Len(input.patterns)
        /\ Len(result.patternNames) = Len(input.patterns)
        /\ result.patternNames = input.names
        /\ \A k \in 1..Len(input.patterns) :
              ScanAllOf(input.patterns[k]) = {result.results[k]}

\* ScanMultiple returned from the threaded path with three patterns whose
\* results are not all alike
C12_Witness ==
    /\ pc.main = "returned"
    /\ Len(pc.task) >= 3
    /\ result.results[1] # <<>>
    /\ result.results[2] # <<>>
    /\ result.results[1] # result.results[2]
    /\ result.patternNames[1] # result.patternNames[2]

(***************************************************************************)
(* C13  ScanMultiple: the threads share nothing they write                 *)
(***************************************************************************)
\* C13: on the threaded path a step of thread t changes no slot of results
\* but its own, no step changes the buffer or the pattern list, and
\* ScanMultiple has not returned while a thread is still running
C13_TaskIsolation ==
    /\ [](pc.main = "returned" =>
             \A t \in DOMAIN pc.task : pc.task[t] = "done")
    /\ [][/\ data' = data /\ dataNull' = dataNull /\ size' = size
          /\ input' = input
          /\ \A t \in DOMAIN pc.task :
                pc'.task[t] # pc.task[t] =>
                    \A k \in DOMAIN result.results :
                        k # t => result'.results[k] = result.results[k]]_vars

\* the second thread has written its slot while the first has not started
\* its scan and the caller waits in join
C13_Witness ==
    /\ pc.main = "join"
    /\ Len(pc.task) >= 2
    /\ pc.task[1] = "start"
    /\ pc.task[2] = "done"
    /\ result.results[2] # <<>>
    /\ result.results[1] = <<>>

(***************************************************************************)
(* MultiPattern::AddPattern called again and again (specification SpecAdd) *)
(***************************************************************************)
\* the largest number of AddPattern calls on one MultiPattern
MaxAdds == 10

\* the arguments of a call: named and unnamed patterns
AddArgs ==
    MultiPool \cup
    {[pattern |-> Pattern_FromString(<<"A", "A", " ", "B", "B">>),
      name |-> <<>>]}

\* MultiPattern multiPattern;
InitAdd ==
    /\ pc = "ready"
    /\ input = EmptyMultiPattern
    /\ pattern = EmptyPattern
    /\ data = <<>>
    /\ dataNull = TRUE
    /\ size = 0
    /\ baseAddress = 0
    /\ bm = NoScanner
    /\ call = NoCall
    /\ result = NotFound
    /\ reads = 0

\* multiPattern.AddPattern(pattern, name)
AddPattern ==
    /\ pc = "ready"
    /\ Len(input.patterns) < MaxAdds
    /\ \E a \in AddArgs :
          /\ input' = MultiPattern_AddPattern(input, a.pattern, a.name)
          /\ call' = [op |-> "MultiPattern::AddPattern",
                      pattern |-> a.pattern, name |-> a.name]
    /\ UNCHANGED <<pc, pattern, data, dataNull, size, baseAddress, bm,
                   result, reads>>

NextAdd == AddPattern

SpecAdd == InitAdd /\ [][NextAdd]_vars

(***************************************************************************)
(* C14  MultiPattern::AddPattern                                           *)
(***************************************************************************)
\* "Pattern_k" written out for k below 100
DefaultName(k) ==
    LET digit(n) == <<"0", "1", "2", "3", "4", "5", "6", "7", "8",
                      "9">>[n + 1]
    IN  <<"P", "a", "t", "t", "e", "r", "n", "_">> \o
        (IF k < 10 THEN <<digit(k)>>
         ELSE <<digit(k \div 10), digit(k % 10)>>)

\* C14: patterns and names always have the same length, and the k-th call
\* of AddPattern appends its pattern behind the k - 1 earlier ones, which it
\* leaves as they are, and appends the caller's name when that is not empty
\* and "Pattern_k" when it is
C14_AddPatternNames ==
    /\ [](Len(input.patterns) = Len(input.names))
    /\ [][LET k == Len(input.patterns) + 1
          IN  /\ call'.op = "MultiPattern::AddPattern"
              /\ input'.patterns = Append(input.patterns, call'.pattern)
              /\ input'.names =
                     Append(input.names,
                            IF call'.name # <<>> THEN call'.name
                            ELSE DefaultName(k))]_vars

\* ten calls, the ninth with a name and the tenth without
C14_Witness ==
    /\ call.op = "MultiPattern::AddPattern"
    /\ Len(input.patterns) = 10
    /\ Len(input.names) = 10
    /\ input.names[9] = <<"s", "i", "g">>
    /\ input.names[10] = <<"P", "a", "t", "t", "e", "r", "n", "_", "1", "0">>
    /\ input.patterns[9] # input.patterns[10]

(***************************************************************************)
(* Advanced::FuzzyScan on its own (specification SpecFuzzy)                *)
(***************************************************************************)
\* the pattern "DE AD BE EF" of the fuzzy tests
FuzzyPattern ==
    Pattern_FromString(<<"D", "E", " ", "A", "D", " ", "B", "E", " ",
                         "E", "F">>)

\* their buffers: the exact bytes, one byte changed, two bytes changed
FuzzyBuffers ==
    {<<222, 173, 190, 239>>, <<222, 173, 190, 170>>,
     <<222, 173, 170, 170>>}

\* the thresholds of calls that leave baseAddress to its default: the 0.8f
\* of the tests, which is the default too, and 0
DefaultBaseThresholds == {Frac(4, 5), Frac(0, 1)}

InitFuzzy ==
    /\ pc = "ready"
    /\ input = NoInput
    /\ \/ /\ pattern \in ScanPatterns
          /\ dataNull \in BOOLEAN
          /\ IF dataNull
             THEN data = <<>> /\ size \in {0, MaxDataLen}
             ELSE data \in SeqsUpTo(ByteVals, MaxDataLen) /\ size = Len(data)
          /\ baseAddress \in BaseAddrs
       \/ /\ pattern = FuzzyPattern
          /\ dataNull = FALSE
          /\ data \in FuzzyBuffers
          /\ size = Len(data)
          /\ baseAddress = 0
    /\ bm = NoScanner
    /\ call = NoCall
    /\ result = NotFound
    /\ reads = 0

\* FuzzyScan(pattern, data, size, threshold): baseAddress is 0
CallFuzzyScanDefaultBase ==
    /\ pc = "ready"
    /\ baseAddress = 0
    /\ \E th \in DefaultBaseThresholds :
          Returns([op |-> "Advanced::FuzzyScan", threshold |-> th],
                  Advanced_FuzzyScan(pattern, data, dataNull, size, th, 0))

NextFuzzy ==
    \/ CallFuzzyScan
    \/ CallFuzzyScanDefaultBase

SpecFuzzy == InitFuzzy /\ [][NextFuzzy]_vars

(***************************************************************************)
(* The similarity of an alignment, counted position by position            *)
(***************************************************************************)
\* the positions of the pattern that are not wildcards
Checked(p) == {j \in 1..Len(p.bytes) : p.mask[j]}

\* those at which the buffer holds the pattern's byte at alignment i
Agreeing(p, d, i) == {j \in Checked(p) : d[i + j] = p.bytes[j]}

SimilarityAt(p, d, i) ==
    Frac(Cardinality(Agreeing(p, d, i)), Cardinality(Checked(p)))

AtLeast(a, b) == a.num * b.den >= b.num * a.den

SameValue(a, b) == a.num * b.den = b.num * a.den

\* the alignments of the pattern in the buffer
Alignments == 0..(size - Size(pattern))

\* FuzzyScan was called with arguments it does not reject, for a pattern with
\* a position to compare
FuzzyCompared ==
    /\ call.op = "Advanced::FuzzyScan"
    /\ IsValid(pattern) /\ ~dataNull /\ size >= Size(pattern)
    /\ AtLeast(call.threshold, Frac(0, 1))
    /\ AtLeast(Frac(1, 1), call.threshold)
    /\ Checked(pattern) # {}

\* the alignments whose similarity reaches the threshold
GoodEnough ==
    {i \in Alignments :
        AtLeast(SimilarityAt(pattern, data, i), call.threshold)}

\* C15: FuzzyScan reports found only when the similarity of the alignment it
\* returns is at least the threshold it was given
C15_FoundOnlyAboveThreshold ==
    (call.op = "Advanced::FuzzyScan" /\ result.found)
        => /\ AtLeast(result.similarity, call.threshold)
           /\ AtLeast(SimilarityAt(pattern, data, result.offset),
                      call.threshold)

\* C16: when an alignment reaches the threshold, FuzzyScan returns the lowest
\* such alignment with its similarity, address = baseAddress + offset and
\* found
C16_FirstGoodEnough ==
    (FuzzyCompared /\ GoodEnough # {})
        => /\ result.found
           /\ result.offset = MinOf(GoodEnough)
           /\ SameValue(result.similarity,
                        SimilarityAt(pattern, data, result.offset))
           /\ result.address = baseAddress + result.offset

\* the first alignment that is good enough lies behind a lower one and is
\* not the best of the buffer
C16_Witness ==
    /\ FuzzyCompared
    /\ GoodEnough # {}
    /\ result.found
    /\ result.offset > 0
    /\ baseAddress > 0
    /\ \E i \in Alignments :
          /\ i > result.offset
          /\ ~AtLeast(result.similarity, SimilarityAt(pattern, data, i))

\* the similarities of all alignments
Similarities == {SimilarityAt(pattern, data, i) : i \in Alignments}

BestSimilarity ==
    CHOOSE b \in Similarities : \A s \in Similarities : AtLeast(b, s)

Differing == Checked(pattern) \ Agreeing(pattern, data, 0)

\* C18: for a buffer as long as the pattern, which has N >= 1 positions that
\* are not wildcards, the similarity FuzzyScan returns is 1 when the buffer
\* agrees at all of them and (N - 1) / N when it differs at exactly one,
\* whatever the buffer holds at the wildcards
C18_ExactSimilarity ==
    (FuzzyCompared /\ size = Size(pattern))
        => LET N == Cardinality(Checked(pattern))
           IN  /\ Differing = {} =>
                      /\ result.similarity.num = result.similarity.den
                      /\ result.similarity.num = N
               /\ Cardinality(Differing) = 1 =>
                      SameValue(result.similarity, Frac(N - 1, N))

\* the similarity 0.75 of the test with one byte of four changed
C18_Witness ==
    /\ FuzzyCompared
    /\ size = Size(pattern)
    /\ Cardinality(Checked(pattern)) = 4
    /\ Cardinality(Differing) = 1
    /\ result.found
    /\ SameValue(result.similarity, Frac(3, 4))
    /\ ~AtLeast(result.similarity, call.threshold)

(***************************************************************************)
(* Advanced::AnalyzeMemory (specification SpecAnalyze)                     *)
(***************************************************************************)
\* MemoryStats stats = {}.  The entropy is kept as the probabilities p of its
\* terms -p * log2(p): the empty sequence is the 0.0 nothing was taken from.
ZeroStats ==
    [totalSize |-> 0, executableSize |-> 0, writableSize |-> 0,
     mostCommonBytes |-> <<>>, commonPatterns |-> <<>>, entropy |-> <<>>]

RECURSIVE ByteFreqFrom(_, _, _, _)
\* for (i = 0; i < size; ++i) byteFreq[data[i]]++
ByteFreqFrom(d, sz, i, byteFreq) ==
    IF i >= sz THEN byteFreq
    ELSE ByteFreqFrom(d, sz, i + 1,
                      [byteFreq EXCEPT ![At(d, i)] = @ + 1])

\* the byte values i = 0, 1, ..., 255 with byteFreq[i] > 0, in the order in
\* which the loops over i meet them
OccurringBytes(byteFreq) ==
    LET occurring == {i \in 0..255 : byteFreq[i] > 0}
    IN  [k \in 1..Cardinality(occurring) |->
            CHOOSE i \in occurring :
                Cardinality({j \in occurring : j < i}) = k - 1]

\* the terms of the entropy, one for each byte value that occurs
EntropyTerms(byteFreq, sz) ==
    LET bytes == OccurringBytes(byteFreq)
    IN  [k \in DOMAIN bytes |-> Frac(byteFreq[bytes[k]], sz)]

\* the pairs (byte, frequency) of the byte values that occur, by byte value
SortedBytes(byteFreq) ==
    LET bytes == OccurringBytes(byteFreq)
    IN  [k \in DOMAIN bytes |->
            [first |-> bytes[k], second |-> byteFreq[bytes[k]]]]

RECURSIVE SortOutcomesOf(_, _)
\* the arrangements of the pairs at the positions of rest in which no pair
\* stands before one of greater frequency
SortOutcomesOf(pairs, rest) ==
    IF rest = {} THEN {<<>>}
    ELSE LET top == {k \in rest :
                        \A l \in rest : pairs[k].second >= pairs[l].second}
         IN  UNION {{<<pairs[k]>> \o tail :
                        tail \in SortOutcomesOf(pairs, rest \ {k})} :
                    k \in top}

\* std::sort(begin, end, a.second > b.second): the sequence comes out ordered
\* by the comparison, and pairs of equal frequency in no order the caller
\* can rely on
StdSort(pairs) == SortOutcomesOf(pairs, DOMAIN pairs)

\* the number of bytes AnalyzeMemory reports
MostCommonLimit == 10

\* the first maxElements byte values of the sorted pairs
MostCommonOf(sortedBytes) ==
    LET maxElements == IF Len(sortedBytes) < MostCommonLimit
                       THEN Len(sortedBytes) ELSE MostCommonLimit
    IN  [k \in 1..maxElements |-> sortedBytes[k].first]

\* the statistics AnalyzeMemory(data, size) can return, with the number of
\* bytes it reads
Advanced_AnalyzeMemory(d, isNull, sz) ==
    LET stats == [ZeroStats EXCEPT !.totalSize = sz]
    IN  IF isNull \/ sz = 0
        THEN {[ret |-> stats, reads |-> 0]}
        ELSE LET byteFreq == ByteFreqFrom(d, sz, 0, [c \in 0..255 |-> 0])
             IN  {[ret |-> [stats EXCEPT
                       !.entropy = EntropyTerms(byteFreq, sz),
                       !.mostCommonBytes = MostCommonOf(sortedBytes)],
                   reads |-> sz] :
                     sortedBytes \in StdSort(SortedBytes(byteFreq))}

\* the byte values of the buffers analysed
AnalyzeBytes == ByteVals \cup {0}

RECURSIVE Repeat(_, _)
\* n times the byte b
Repeat(b, n) == IF n = 0 THEN <<>> ELSE <<b>> \o Repeat(b, n - 1)

RECURSIVE Staircase(_, _)
\* the byte b, b + 1, ..., last: the first last - b + 1 times, each
\* following one once less
Staircase(b, last) ==
    IF b > last THEN <<>>
    ELSE Repeat(b, last - b + 1) \o Staircase(b + 1, last)

\* a buffer of one byte value more than are reported: the values 1 to
\* MostCommonLimit of falling frequency, and one more that occurs once, as
\* the last of them does
CrowdedBuffer ==
    Staircase(1, MostCommonLimit) \o <<MostCommonLimit + 1>>

InitAnalyze ==
    /\ pc = "ready"
    /\ input = NoInput
    /\ pattern = EmptyPattern
    /\ \/ /\ dataNull \in BOOLEAN
          /\ IF dataNull
             THEN data = <<>> /\ size \in {0, MaxDataLen}
             ELSE /\ data \in SeqsUpTo(AnalyzeBytes, MaxDataLen)
                  /\ size = Len(data)
       \/ /\ dataNull = FALSE
          /\ data = CrowdedBuffer
          /\ size = Len(data)
    /\ baseAddress = 0
    /\ bm = NoScanner
    /\ call = NoCall
    /\ result = ZeroStats
    /\ reads = 0

CallAnalyzeMemory ==
    /\ pc = "ready"
    /\ \E r \in Advanced_AnalyzeMemory(data, dataNull, size) :
          Returns([op |-> "Advanced::AnalyzeMemory"], r)

NextAnalyze == CallAnalyzeMemory

SpecAnalyze == InitAnalyze /\ [][NextAnalyze]_vars

(***************************************************************************)
(* C19, C20  AnalyzeMemory                                                 *)
(***************************************************************************)
\* how often the buffer holds the byte b
Occurrences(b) == Cardinality({i \in 1..size : data[i] = b})

\* the byte values the buffer holds
Distinct == {data[i] : i \in 1..size}

\* b comes before c: it is more frequent, or as frequent and smaller
Outranks(b, c) ==
    \/ Occurrences(b) > Occurrences(c)
    \/ Occurrences(b) = Occurrences(c) /\ b < c

\* C19: mostCommonBytes holds the min(10, number of distinct byte values)
\* most frequent byte values of the buffer, the more frequent first and of
\* equally frequent ones the smaller first
C19_MostCommonBytes ==
    (call.op = "Advanced::AnalyzeMemory" /\ ~dataNull /\ size > 0)
        => LET n == IF Cardinality(Distinct) < 10
                    THEN Cardinality(Distinct) ELSE 10
           IN  /\ Len(result.mostCommonBytes) = n
               /\ \A k \in 1..n :
                     /\ result.mostCommonBytes[k] \in Distinct
                     /\ Cardinality({c \in Distinct :
                            Outranks(c, result.mostCommonBytes[k])}) = k - 1

\* C20: for a buffer of size 0 or a null data pointer, with any size,
\* AnalyzeMemory returns statistics that are all zero: totalSize 0, entropy
\* 0 and no most common byte
C20_EmptyBufferZeroStats ==
    (call.op = "Advanced::AnalyzeMemory" /\ (dataNull \/ size = 0))
        => /\ result.totalSize = 0
           /\ result.entropy = <<>>
           /\ result.mostCommonBytes = <<>>
           /\ result = ZeroStats

(***************************************************************************)
(* namespace PatternUtils (specification SpecUtils)                        *)
(***************************************************************************)
\* std::replace(begin, end, from, to)
StdReplace(str, from, to) ==
    [k \in DOMAIN str |-> IF str[k] = from THEN to ELSE str[k]]

RECURSIVE FindQuestionSpace(_, _)
\* normalized.find("? ", pos), pos counting from 0; -1 is npos
FindQuestionSpace(str, pos) ==
    IF pos + 2 > Len(str) THEN 0 - 1
    ELSE IF At(str, pos) = "?" /\ At(str, pos + 1) = " " THEN pos
    ELSE FindQuestionSpace(str, pos + 1)

RECURSIVE WidenWildcardsFrom(_, _)
\* while ((pos = find("? ", pos)) != npos) { replace(pos, 2, "?? "); pos += 3; }
WidenWildcardsFrom(str, pos) ==
    LET found == FindQuestionSpace(str, pos)
    IN  IF found < 0 THEN str
        ELSE WidenWildcardsFrom(
                 SubSeq(str, 1, found) \o <<"?", "?", " ">> \o
                 SubSeq(str, found + 3, Len(str)),
                 found + 3)

\* FromIDAPattern: every '?' becomes ' ' before the loop looks for "? "
FromIDAPattern(idaPattern) ==
    Pattern_FromString(
        WidenWildcardsFrom(StdReplace(idaPattern, "?", " "), 0))

FromX64DbgPattern(x64dbgPattern) == Pattern_FromString(x64dbgPattern)

\* snprintf(hex, 3, "%02x", byte): the digits in lower case
FormatByte_LowerCase(byte) ==
    <<HexCharsLower[(byte \div 16) + 1], HexCharsLower[(byte % 16) + 1]>>

\* snprintf(hex, 3, "%02X", byte): two upper case hex digits
FormatByte(byte) ==
    <<HexChars[(byte \div 16) + 1], HexChars[(byte % 16) + 1]>>

RECURSIVE ToStringFrom(_, _, _)
\* the loop of ToString from position i on, result holding what precedes
ToStringFrom(p, i, acc) ==
    IF i >= Size(p) THEN acc
    ELSE ToStringFrom(p, i + 1,
             acc \o (IF i > 0 THEN <<" ">> ELSE <<>>)
                 \o (IF At(p.mask, i) THEN FormatByte(At(p.bytes, i))
                     ELSE <<"?", "?">>))

PatternUtils_ToString(p) == ToStringFrom(p, 0, <<>>)

\* one token of IsValidPatternString: TRUE when the loop goes on
ValidToken(token) ==
    \/ IsWildcardToken(token)
    \/ /\ ~(Len(token) = 0 \/ Len(token) > 3)
       /\ \A k \in DOMAIN token : IsHexDigit(token[k])
       /\ LET r == Stoul16(token)
          IN  r.ok /\ ~(r.value > 255)

IsValidPatternString(str) ==
    IF str = <<>> THEN FALSE
    ELSE LET tokens == Tokenize(str)
         IN  \A k \in DOMAIN tokens : ValidToken(tokens[k])

\* characters the strings handed to the utilities are made of
UtilsAlphabet == {" ", "?", "0", "A", "Z"}

UtilsInputs ==
    {[kind |-> "string", str |-> s, bytes |-> <<>>, mask |-> <<>>] :
        s \in SeqsUpTo(UtilsAlphabet, MaxStrLen)}

\* a utility is about to be called with the string input.str
InitUtils ==
    /\ pc = "args"
    /\ input \in UtilsInputs
    /\ pattern = EmptyPattern
    /\ data = <<>>
    /\ dataNull = TRUE
    /\ size = 0
    /\ baseAddress = 0
    /\ bm = NoScanner
    /\ call = NoCall
    /\ result = NotFound
    /\ reads = 0

UtilityReturns(op, p, r) ==
    /\ call' = [op |-> op]
    /\ pattern' = p
    /\ result' = r
    /\ UNCHANGED <<pc, input, data, dataNull, size, baseAddress, bm, reads>>

\* Pattern testPattern(s); ToString(testPattern)
CallToString ==
    /\ pc = "args"
    /\ LET testPattern == Pattern_FromString(input.str)
       IN  UtilityReturns("PatternUtils::ToString", testPattern,
                          PatternUtils_ToString(testPattern))

CallIsValidPatternString ==
    /\ pc = "args"
    /\ UtilityReturns("PatternUtils::IsValidPatternString", pattern,
                      IsValidPatternString(input.str))

CallFromIDAPattern ==
    /\ pc = "args"
    /\ UtilityReturns("PatternUtils::FromIDAPattern", pattern,
                      FromIDAPattern(input.str))

CallFromX64DbgPattern ==
    /\ pc = "args"
    /\ UtilityReturns("PatternUtils::FromX64DbgPattern", pattern,
                      FromX64DbgPattern(input.str))

NextUtils ==
    \/ CallToString
    \/ CallIsValidPatternString
    \/ CallFromIDAPattern
    \/ CallFromX64DbgPattern

SpecUtils == InitUtils /\ [][NextUtils]_vars

(***************************************************************************)
(* C21, C22, C23  PatternUtils                                             *)
(***************************************************************************)
UpperHexDigit(c) ==
    c \in {"0", "1", "2", "3", "4", "5", "6", "7", "8", "9",
           "A", "B", "C", "D", "E", "F"}

\* "XX XX ?? XX": tokens of two characters, one space between neighbours,
\* each token two upper case hex digits or ??
Canonical(str) ==
    /\ Len(str) % 3 = 2
    /\ \A k \in DOMAIN str :
          IF k % 3 = 0 THEN str[k] = " "
          ELSE UpperHexDigit(str[k]) \/ str[k] = "?"
    /\ \A k \in DOMAIN str :
          k % 3 = 1 => ((str[k] = "?") <=> (str[k + 1] = "?"))

\* C21: for a pattern string s in canonical form, ToString(Pattern(s)) is s
\* again, and the pattern built from that string has the bytes and the mask
\* of Pattern(s)
C21_RoundTrip ==
    (call.op = "PatternUtils::ToString" /\ Canonical(input.str))
        => /\ result = input.str
           /\ IsValid(pattern)
           /\ Pattern_FromString(result).bytes = pattern.bytes
           /\ Pattern_FromString(result).mask = pattern.mask

\* a canonical string of a byte with a letter digit and a wildcard
C21_Witness ==
    /\ call.op = "PatternUtils::ToString"
    /\ Canonical(input.str)
    /\ Len(input.str) = 5
    /\ pattern.mask = <<TRUE, FALSE>>
    /\ pattern.bytes[1] = 10
    /\ result = <<"0", "A", " ", "?", "?">>

\* C22: IsValidPatternString(s) is TRUE exactly when Pattern(s) is valid
C22_ValidatorAgreesWithConstructor ==
    call.op = "PatternUtils::IsValidPatternString"
        => (result <=> IsValid(Pattern_FromString(input.str)))

\* an IDA-style string: tokens of two hex digits and single question marks
IDAStyle(str) ==
    /\ Tokenize(str) # <<>>
    /\ \A k \in DOMAIN Tokenize(str) :
          LET t == Tokenize(str)[k]
          IN  t = <<"?">> \/ (Len(t) = 2 /\ \A j \in 1..2 : IsHexDigit(t[j]))

RECURSIVE X64DbgSpelling(_)
\* the string with every ? doubled
X64DbgSpelling(str) ==
    IF str = <<>> THEN <<>>
    ELSE (IF str[1] = "?" THEN <<"?", "?">> ELSE <<str[1]>>)
         \o X64DbgSpelling(Tail(str))

\* C23: for an IDA-style string, FromIDAPattern returns a valid pattern of
\* one position per token, a wildcard exactly where the token is ?, which
\* is the pattern Pattern(s) and the pattern FromX64DbgPattern returns for
\* the string with ?? for ?
C23_FromIDAPattern ==
    (call.op = "PatternUtils::FromIDAPattern" /\ IDAStyle(input.str))
        => LET tokens == Tokenize(input.str)
           IN  /\ IsValid(result)
               /\ Size(result) = Len(tokens)
               /\ \A k \in DOMAIN tokens :
                     k \in DOMAIN result.mask
                         /\ (result.mask[k] <=> tokens[k] # <<"?">>)
               /\ result = Pattern_FromString(input.str)
               /\ result = FromX64DbgPattern(X64DbgSpelling(input.str))

(***************************************************************************)
(* MemoryManager on Windows (specification SpecMemory).  input holds the   *)
(* MemoryManager objects of the program and data the operating system's    *)
(* side: handles[h] is the handle with the value h, with the number of     *)
(* times CloseHandle was called on it, and memory the addresses allocated  *)
(* in the target process.  The handle 0 is nullptr.                        *)
(***************************************************************************)
\* the number of handles the operating system hands out
MaxHandles == 4

\* the number of addresses VirtualAllocEx hands out
MaxAllocs == 1

\* the MemoryManager objects of the program
Managers == {1, 2}

\* process ids passed to AttachToProcess
ProcessIds == {1000}

AllocAddrs == {4096 * k : k \in 1..MaxAllocs}

\* MemoryManager() = default, by the member initializers
NewMemoryManager ==
    [life |-> "alive", process_handle_ |-> 0, process_id_ |-> 0,
     process_window_ |-> 0, modules_ |-> {}, allocated_memory_ |-> <<>>]

\* the storage of an object not constructed yet
NoMemoryManager == [NewMemoryManager EXCEPT !.life = "none"]

NoHandles == [handles |-> <<>>, memory |-> {}]

\* CloseHandle(h)
CloseHandle(os, h) ==
    [os EXCEPT !.handles[h].closes = @ + 1]

\* a handle the operating system returns: the next value, open
OpenHandle(os, kind) ==
    [os EXCEPT !.handles = Append(@, [kind |-> kind, closes |-> 0])]

RECURSIVE FreeAll(_, _, _)
\* for (auto addr : allocated_memory_) VirtualFreeEx(...), from index k on
FreeAll(os, addrs, k) ==
    IF k > Len(addrs) THEN os
    ELSE FreeAll([os EXCEPT !.memory = @ \ {addrs[k]}], addrs, k + 1)

\* DetachProcess that closes the handle and keeps the pointer
MemoryManager_DetachProcess_KeepHandle(self, os) ==
    IF self.process_handle_ # 0
    THEN [self |-> [self EXCEPT !.allocated_memory_ = <<>>,
                                !.process_id_ = 0,
                                !.process_window_ = 0,
                                !.modules_ = {}],
          os |-> CloseHandle(FreeAll(os, self.allocated_memory_, 1),
                             self.process_handle_)]
    ELSE [self |-> [self EXCEPT !.process_id_ = 0,
                                !.process_window_ = 0,
                                !.modules_ = {}],
          os |-> os]

\* MemoryManager::DetachProcess
MemoryManager_DetachProcess(self, os) ==
    IF self.process_handle_ # 0
    THEN [self |-> [self EXCEPT !.allocated_memory_ = <<>>,
                                !.process_handle_ = 0,
                                !.process_id_ = 0,
                                !.process_window_ = 0,
                                !.modules_ = {}],
          os |-> CloseHandle(FreeAll(os, self.allocated_memory_, 1),
                             self.process_handle_)]
    ELSE [self |-> [self EXCEPT !.process_id_ = 0,
                                !.process_window_ = 0,
                                !.modules_ = {}],
          os |-> os]

\* MemoryManager::EnumerateModules: the snapshot is INVALID_HANDLE_VALUE, or
\* a handle that is closed after the modules were read from it
EnumerateModules(self, os, snapshot) ==
    IF self.process_handle_ = 0 \/ ~snapshot.valid
    THEN [self |-> [self EXCEPT !.modules_ = {}], os |-> os]
    ELSE LET opened == OpenHandle(os, "snapshot")
         IN  [self |-> [self EXCEPT !.modules_ = snapshot.modules],
              os |-> CloseHandle(opened, Len(opened.handles))]

\* MemoryManager::AttachToProcess(DWORD): opened is what OpenProcess did
MemoryManager_AttachToProcess(self, os, process_id, opened, snapshot) ==
    LET detached == MemoryManager_DetachProcess(self, os)
    IN  IF opened # "handle"
        THEN [self |-> detached.self, os |-> detached.os,
              ret |-> IF opened = "denied" THEN "AccessDenied"
                      ELSE "ProcessNotFound"]
        ELSE LET os1 == OpenHandle(detached.os, "process")
                 attached == [detached.self EXCEPT
                                 !.process_handle_ = Len(os1.handles),
                                 !.process_id_ = process_id]
                 listed == EnumerateModules(attached, os1, snapshot)
             IN  [self |-> listed.self, os |-> listed.os, ret |-> "Success"]

\* what the member-wise move leaves in other
MovedFrom(other) ==
    [other EXCEPT !.process_handle_ = 0, !.process_id_ = 0,
                  !.process_window_ = 0, !.modules_ = {},
                  !.allocated_memory_ = <<>>]

\* the members this takes over from other
MovedInto(other) == [other EXCEPT !.life = "alive"]

\* MemoryManager manager; a second object is not constructed yet
InitMemory ==
    /\ pc = "ready"
    /\ input = [m \in Managers |->
                   IF m = 1 THEN NewMemoryManager ELSE NoMemoryManager]
    /\ pattern = EmptyPattern
    /\ data = NoHandles
    /\ dataNull = FALSE
    /\ size = 0
    /\ baseAddress = 0
    /\ bm = NoScanner
    /\ call = NoCall
    /\ result = NotFound
    /\ reads = 0

\* a member function of manager m has returned r, leaving the objects and
\* the operating system as given
MemoryReturns(op, m, r, managers, os) ==
    /\ call' = [op |-> op, self |-> m]
    /\ result' = r
    /\ input' = managers
    /\ data' = os
    /\ UNCHANGED <<pc, pattern, dataNull, size, baseAddress, bm, reads>>

\* what CreateToolhelp32Snapshot and Module32First/Next can yield
Snapshots ==
    {[valid |-> FALSE, modules |-> {}],
     [valid |-> TRUE, modules |-> {"main.exe"}]}

\* MemoryManager m;
ConstructManager ==
    /\ pc = "ready"
    /\ \E m \in Managers :
          /\ input[m].life = "none"
          /\ MemoryReturns("MemoryManager::MemoryManager", m, TRUE,
                           [input EXCEPT ![m] = NewMemoryManager], data)

\* MemoryManager m(std::move(other));
MoveConstructManager ==
    /\ pc = "ready"
    /\ \E m \in Managers, other \in Managers :
          /\ input[m].life = "none"
          /\ input[other].life = "alive"
          /\ MemoryReturns("MemoryManager::MemoryManager(&&)", m, TRUE,
                           [input EXCEPT ![m] = MovedInto(input[other]),
                                         ![other] = MovedFrom(input[other])],
                           data)

\* m = std::move(other);
MoveAssignManager ==
    /\ pc = "ready"
    /\ \E m \in Managers, other \in Managers :
          /\ input[m].life = "alive"
          /\ input[other].life = "alive"
          /\ IF m = other
             THEN MemoryReturns("MemoryManager::operator=", m, TRUE, input,
                                data)
             ELSE LET d == MemoryManager_DetachProcess(input[m], data)
                  IN  MemoryReturns("MemoryManager::operator=", m, TRUE,
                          [input EXCEPT ![m] = MovedInto(input[other]),
                                        ![other] = MovedFrom(input[other])],
                          d.os)

\* ~MemoryManager() { DetachProcess(); }
DestroyManager ==
    /\ pc = "ready"
    /\ \E m \in Managers :
          /\ input[m].life = "alive"
          /\ LET d == MemoryManager_DetachProcess(input[m], data)
             IN  MemoryReturns("MemoryManager::~MemoryManager", m, TRUE,
                     [input EXCEPT ![m] = [d.self EXCEPT
                                              !.life = "destroyed"]],
                     d.os)

\* m.AttachToProcess(process_id): OpenProcess yields a handle, as long as
\* the operating system has one, or fails with or without
\* ERROR_ACCESS_DENIED
AttachToProcess ==
    /\ pc = "ready"
    /\ \E m \in Managers, process_id \in ProcessIds,
          opened \in {"handle", "denied", "notfound"},
          snapshot \in Snapshots :
          /\ input[m].life = "alive"
          /\ opened = "handle" => Len(data.handles) + 2 <= MaxHandles
          /\ LET a == MemoryManager_AttachToProcess(input[m], data,
                          process_id, opened, snapshot)
             IN  MemoryReturns("MemoryManager::AttachToProcess", m, a.ret,
                               [input EXCEPT ![m] = a.self], a.os)

\* m.DetachProcess()
DetachProcess ==
    /\ pc = "ready"
    /\ \E m \in Managers :
          /\ input[m].life = "alive"
          /\ LET d == MemoryManager_DetachProcess(input[m], data)
             IN  MemoryReturns("MemoryManager::DetachProcess", m, TRUE,
                               [input EXCEPT ![m] = d.self], d.os)

\* m.AllocateMemory(size, protection): VirtualAllocEx yields an address
\* that is free, or nullptr; it yields no more than MaxAllocs addresses to
\* one manager
AllocateMemory ==
    /\ pc = "ready"
    /\ \E m \in Managers, mem \in (AllocAddrs \ data.memory) \cup {0} :
          /\ input[m].life = "alive"
          /\ mem # 0 => Len(input[m].allocated_memory_) < MaxAllocs
          /\ IF input[m].process_handle_ = 0 \/ mem = 0
             THEN MemoryReturns("MemoryManager::AllocateMemory", m, 0,
                                input, data)
             ELSE MemoryReturns("MemoryManager::AllocateMemory", m, mem,
                     [input EXCEPT ![m].allocated_memory_ = Append(@, mem)],
                     [data EXCEPT !.memory = @ \cup {mem}])

\* m.FreeMemory(address): VirtualFreeEx releases an allocated address
FreeMemory ==
    /\ pc = "ready"
    /\ \E m \in Managers, address \in AllocAddrs \cup {0} :
          /\ input[m].life = "alive"
          /\ IF /\ input[m].process_handle_ # 0
                /\ address # 0
                /\ address \in data.memory
             THEN MemoryReturns("MemoryManager::FreeMemory", m, TRUE,
                     [input EXCEPT ![m].allocated_memory_ =
                         SelectSeq(@, LAMBDA a : a # address)],
                     [data EXCEPT !.memory = @ \ {address}])
             ELSE MemoryReturns("MemoryManager::FreeMemory", m, FALSE,
                                input, data)

NextMemory ==
    \/ ConstructManager
    \/ MoveConstructManager
    \/ MoveAssignManager
    \/ DestroyManager
    \/ AttachToProcess
    \/ DetachProcess
    \/ AllocateMemory
    \/ FreeMemory

SpecMemory == InitMemory /\ [][NextMemory]_vars

(***************************************************************************)
(* C24  MemoryManager: attachment and handles                              *)
(***************************************************************************)
\* bool IsAttached() const
IsAttached(self) == self.process_handle_ # 0

\* the process handles that are open
OpenProcessHandles ==
    {h \in DOMAIN data.handles :
        data.handles[h].kind = "process" /\ data.handles[h].closes = 0}

\* the objects that exist
Alive == {m \in Managers : input[m].life = "alive"}

\* C24: a manager reports IsAttached exactly when it holds a process handle
\* that is open and that no other manager holds; a successful attach leaves
\* it attached and DetachProcess leaves it detached with process id 0, no
\* modules and no tracked allocations; no handle is closed twice, and every
\* handle that was opened is closed or held by a manager that exists, so
\* that none is left open when the managers are gone
C24_AttachmentLifecycle ==
    /\ \A m \in Alive :
          /\ IsAttached(input[m]) <=>
                 input[m].process_handle_ \in OpenProcessHandles
          /\ \A o \in Alive \ {m} :
                 IsAttached(input[m]) =>
                     input[o].process_handle_ # input[m].process_handle_
    /\ \A h \in DOMAIN data.handles :
          /\ data.handles[h].closes <= 1
          /\ data.handles[h].closes = 0 =>
                 \E m \in Alive : input[m].process_handle_ = h
    /\ (call.op = "MemoryManager::AttachToProcess" /\ result = "Success")
          => IsAttached(input[call.self])
    /\ (call.op = "MemoryManager::AttachToProcess" /\ result # "Success")
          => ~IsAttached(input[call.self])
    /\ call.op \in {"MemoryManager::DetachProcess",
                    "MemoryManager::~MemoryManager"}
          => /\ ~IsAttached(input[call.self])
             /\ input[call.self].process_id_ = 0
             /\ input[call.self].modules_ = {}
             /\ input[call.self].allocated_memory_ = <<>>

\* two attach cycles are over, the second one with an allocation, and both
\* managers are destroyed: every handle was closed once
C24_Witness ==
    /\ \A m \in Managers : input[m].life = "destroyed"
    /\ Cardinality({h \in DOMAIN data.handles :
                       data.handles[h].kind = "process"}) >= 2
    /\ \A h \in DOMAIN data.handles : data.handles[h].closes = 1
    /\ call.op = "MemoryManager::~MemoryManager"

(***************************************************************************)
(* The good-suffix table and the indices its construction uses             *)
(* (specification Spec)                                                    *)
(***************************************************************************)
\* the shifts s in 1..m that keep the suffix matched behind j aligned with
\* equal bytes and bring a different byte, or none, under position j
GoodSuffixShifts(p, j) ==
    LET m == Size(p)
    IN  {s \in 1..m :
            /\ \A k \in (j + 1)..(m - 1) :
                  k - s >= 0 => At(p.bytes, k - s) = At(p.bytes, k)
            /\ j - s < 0 \/ At(p.bytes, j - s) # At(p.bytes, j)}

\* the strong good-suffix shift of Boyer-Moore for a mismatch at j
StrongGoodSuffixShift(p, j) == MinOf(GoodSuffixShifts(p, j))

\* C25: for a valid pattern without wildcards, goodSuffixTable_[j] of the
\* constructed scanner is the strong good-suffix shift for a mismatch at j,
\* for every position j of the pattern
C25_GoodSuffixTable ==
    (bm.state = "built" /\ IsValid(pattern) /\ NoWildcards(pattern))
        => \A j \in 0..(Size(pattern) - 1) :
              bm.goodSuffixTable_[j] = StrongGoodSuffixShift(pattern, j)

\* C26: the construction of a scanner from a valid pattern of length m uses
\* only indices 0..m-1 of goodSuffixTable_ and 0..m of borderTable, and no
\* build stops at an index check
C26_ConstructionInBounds ==
    /\ pc # "aborted"
    /\ (bm.state = "built" /\ IsValid(pattern))
          => /\ bm.gsAccess \subseteq 0..(Size(pattern) - 1)
             /\ bm.borderAccess \subseteq 0..Size(pattern)

(***************************************************************************)
(* The loops of BoyerMooreScanner::Scan and ScanAll, one iteration a step  *)
(* (specification SpecLoop).  call.shift is the loop variable and          *)
(* call.visited the alignments compared so far, result the value returned  *)
(* by Scan or the vector ScanAll is filling.                               *)
(***************************************************************************)
\* a scanner constructed for the pattern by a build without index checks
InitLoop ==
    /\ pc = "call"
    /\ input = NoInput
    /\ pattern \in ScanPatterns
    /\ dataNull \in BOOLEAN
    /\ IF dataNull
       THEN data = <<>> /\ size \in {0, MaxDataLen}
       ELSE data \in SeqsUpTo(ByteVals, MaxDataLen) /\ size = Len(data)
    /\ baseAddress = 4096
    /\ \E garbage \in {Size(pattern), Size(pattern) + 1} :
          bm = BoyerMooreScanner_New(pattern, garbage)
    /\ call = NoCall
    /\ result = NotFound
    /\ reads = 0

\* the entry of Scan or ScanAll: the early return, or shift = 0
LoopEnter(op, empty) ==
    /\ call' = [op |-> op, shift |-> 0, visited |-> <<>>]
    /\ result' = empty
    /\ pc' = IF ~IsValid(bm.pattern_) \/ dataNull \/ size < Size(bm.pattern_)
             THEN "returned" ELSE "loop"
    /\ UNCHANGED <<input, pattern, data, dataNull, size, baseAddress, bm,
                   reads>>

BMScan_Enter ==
    /\ pc = "call"
    /\ LoopEnter("BoyerMooreScanner::Scan", NotFound)

BMScanAll_Enter ==
    /\ pc = "call"
    /\ LoopEnter("BoyerMooreScanner::ScanAll", <<>>)

\* the loop test failed: return ScanResult() or the results collected
BMLoop_Exit ==
    /\ pc = "loop"
    /\ call.shift > size - Size(bm.pattern_)
    /\ pc' = "returned"
    /\ UNCHANGED <<input, pattern, data, dataNull, size, baseAddress, bm,
                   call, result, reads>>

\* one iteration of the loop of Scan
BMScan_Iteration ==
    /\ pc = "loop"
    /\ call.op = "BoyerMooreScanner::Scan"
    /\ call.shift <= size - Size(bm.pattern_)
    /\ LET c == BMCompare(bm.pattern_, data, call.shift,
                          Size(bm.pattern_) - 1)
       IN  IF c.j < 0
           THEN /\ result' = ScanResultAt(baseAddress + call.shift,
                                          call.shift)
                /\ call' = [call EXCEPT !.visited = Append(@, call.shift)]
                /\ pc' = "returned"
           ELSE /\ result' = result
                /\ call' = [call EXCEPT
                              !.visited = Append(@, call.shift),
                              !.shift = @ + BMMismatchShift(bm, data,
                                                            call.shift, c.j)]
                /\ pc' = pc
    /\ UNCHANGED <<input, pattern, data, dataNull, size, baseAddress, bm,
                   reads>>

\* one iteration of the loop of ScanAll
BMScanAll_Iteration ==
    /\ pc = "loop"
    /\ call.op = "BoyerMooreScanner::ScanAll"
    /\ call.shift <= size - Size(bm.pattern_)
    /\ LET c == BMCompare(bm.pattern_, data, call.shift,
                          Size(bm.pattern_) - 1)
       IN  IF c.j < 0
           THEN /\ result' = Append(result,
                                    ScanResultAt(baseAddress + call.shift,
                                                 call.shift))
                /\ call' = [call EXCEPT
                              !.visited = Append(@, call.shift),
                              !.shift = @ + BMMatchShift(bm, size,
                                                         call.shift)]
           ELSE /\ result' = result
                /\ call' = [call EXCEPT
                              !.visited = Append(@, call.shift),
                              !.shift = @ + BMMismatchShift(bm, data,
                                                            call.shift, c.j)]
    /\ UNCHANGED <<pc, input, pattern, data, dataNull, size, baseAddress, bm,
                   reads>>

NextLoop ==
    \/ BMScan_Enter
    \/ BMScanAll_Enter
    \/ BMLoop_Exit
    \/ BMScan_Iteration
    \/ BMScanAll_Iteration

\* the caller runs the function it called until it returns
SpecLoop == InitLoop /\ [][NextLoop]_vars /\ WF_vars(NextLoop)

\* the bad-character shift the code computes after a mismatch at alignment a
BadCharShiftAt(a) ==
    LET c == BMCompare(bm.pattern_, data, a, Size(bm.pattern_) - 1)
    IN  IF c.j < 0 THEN 1
        ELSE bm.badCharTable_[At(data, a + c.j)] - Size(bm.pattern_) + 1 + c.j

\* the alignments compared so far are distinct, ascending and inside the
\* buffer, which leaves room for size - Size() + 1 of them
VisitedAscending ==
    call.op # "none" =>
        /\ \A k \in 1..Len(call.visited) :
              /\ call.visited[k] \in 0..(size - Size(bm.pattern_))
              /\ k > 1 => call.visited[k] > call.visited[k - 1]
        /\ (pc = "loop" /\ Len(call.visited) > 0)
              => call.shift > call.visited[Len(call.visited)]
        /\ Len(call.visited) > 0
              => Len(call.visited) <= size - Size(bm.pattern_) + 1

\* an iteration that stays in the loop moves shift up by one or more
ShiftAdvances ==
    (pc = "loop" /\ pc' = "loop") => call'.shift >= call.shift + 1

\* C27: Scan and ScanAll return: every iteration that stays in the loop
\* raises shift by at least 1, the alignments compared are distinct and
\* ascending, and there are at most size - Size() + 1 of them
C27_LoopsTerminate ==
    /\ []VisitedAscending
    /\ [][ShiftAdvances]_vars
    /\ <>(pc = "returned")

\* C27 witness: ScanAll has returned after a mismatch whose bad-character
\* shift was negative
C27_Witness ==
    /\ pc = "returned"
    /\ call.op = "BoyerMooreScanner::ScanAll"
    /\ \E k \in 1..Len(call.visited) :
          BadCharShiftAt(call.visited[k]) < 0

\* C28: when SimpleScanner::Scan finds the pattern at an offset, FuzzyScan
\* called with threshold 1 returns found at that offset with similarity 1,
\* for patterns of wildcards only as for the others
C28_FuzzyAgreesWithSimple ==
    LET exact == SimpleScanner_Scan(pattern, data, dataNull, size,
                                    baseAddress).ret
    IN  (/\ call.op = "Advanced::FuzzyScan"
         /\ SameValue(call.threshold, Frac(1, 1))
         /\ exact.found)
            => /\ result.found
               /\ result.offset = exact.offset
               /\ SameValue(result.similarity, Frac(1, 1))

(***************************************************************************)
(* ProcessManager (specification SpecProcess).  input is the ProcessManager *)
(* object, data the operating system: the handles it has returned, as in   *)
(* SpecMemory, and bytes, the committed region of the target process,      *)
(* which starts at baseAddress.  pattern holds the pattern and mask        *)
(* strings and size the searchSize that PatternScan is called with.  A     *)
(* handle is its index in data.handles; NULL is 0.                         *)
(***************************************************************************)
INVALID_HANDLE_VALUE == 0 - 1

\* ProcessManager::ProcessManager()
NewProcessManager ==
    [m_processHandle |-> INVALID_HANDLE_VALUE, m_processId |-> 0,
     m_moduleCache |-> {}, m_isAttached |-> FALSE, life |-> "alive"]

\* h is a handle the operating system returned and nobody has closed
UsableHandle(os, h) == h \in DOMAIN os.handles /\ os.handles[h].closes = 0

\* CloseHandle(h) as ProcessManager calls it: it fails for a value that is
\* no handle
CloseHandleValue(os, h) ==
    IF h \in DOMAIN os.handles THEN CloseHandle(os, h) ELSE os

\* ProcessManager::ClearCache
ClearCache(self) == [self EXCEPT !.m_moduleCache = {}]

\* ProcessManager::DetachFromProcess
ProcessManager_DetachFromProcess(self, os) ==
    [self |-> ClearCache([self EXCEPT
                             !.m_processHandle = INVALID_HANDLE_VALUE,
                             !.m_processId = 0,
                             !.m_isAttached = FALSE]),
     os |-> IF self.m_processHandle # INVALID_HANDLE_VALUE
            THEN CloseHandleValue(os, self.m_processHandle)
            ELSE os]

\* ProcessManager::AttachToProcessById: opened tells whether OpenProcess
\* returns a handle or fails, and it fails by returning NULL
ProcessManager_AttachToProcessById(self, os, processId, opened) ==
    LET detached == ProcessManager_DetachFromProcess(self, os)
        os1      == IF opened THEN OpenHandle(detached.os, "process")
                    ELSE detached.os
        h        == IF opened THEN Len(os1.handles) ELSE 0
        held     == [detached.self EXCEPT !.m_processHandle = h]
    IN  IF h = INVALID_HANDLE_VALUE
        THEN [self |-> held, os |-> os1, ret |-> FALSE]
        ELSE [self |-> ClearCache([held EXCEPT !.m_processId = processId,
                                               !.m_isAttached = TRUE]),
              os |-> os1, ret |-> TRUE]

\* ProcessManager::AttachToProcess: processId is what FindProcessId found,
\* 0 for a name no running process has
ProcessManager_AttachToProcess(self, os, processId, opened) ==
    IF processId = 0 THEN [self |-> self, os |-> os, ret |-> FALSE]
    ELSE ProcessManager_AttachToProcessById(self, os, processId, opened)

\* ProcessManager::GetModule with EnumerateModules: the cache, then a
\* snapshot of the modules of m_processId, whose handle is closed again;
\* ret is IsValid() of the ModuleInfo returned
ProcessManager_GetModule(self, os, moduleName, snapshot) ==
    IF moduleName \in self.m_moduleCache
    THEN [self |-> self, os |-> os, ret |-> TRUE]
    ELSE IF ~self.m_isAttached \/ ~snapshot.valid
    THEN [self |-> self, os |-> os, ret |-> FALSE]
    ELSE LET opened == OpenHandle(os, "snapshot")
             closed == CloseHandle(opened, Len(opened.handles))
         IN  IF moduleName \in snapshot.modules
             THEN [self |-> [self EXCEPT
                               !.m_moduleCache = @ \cup {moduleName}],
                   os |-> closed, ret |-> TRUE]
             ELSE [self |-> self, os |-> closed, ret |-> FALSE]

RECURSIVE MaskedMatchFrom(_, _, _, _, _)
\* the inner for loop of PatternScanInBuffer, from position j
MaskedMatchFrom(buffer, pat, mask, i, j) ==
    IF j >= Len(pat) THEN TRUE
    ELSE IF At(mask, j) = "x" /\ At(buffer, i + j) # At(pat, j) THEN FALSE
    ELSE MaskedMatchFrom(buffer, pat, mask, i, j + 1)

RECURSIVE ScanBufferFrom(_, _, _, _, _)
\* the outer for loop of PatternScanInBuffer, from offset i
ScanBufferFrom(buffer, bufferSize, pat, mask, i) ==
    IF i > bufferSize - Len(pat) THEN 0
    ELSE IF MaskedMatchFrom(buffer, pat, mask, i, 0) THEN i
    ELSE ScanBufferFrom(buffer, bufferSize, pat, mask, i + 1)

\* ProcessManager::PatternScanInBuffer: the offset of the first match, and
\* 0 when there is none
PatternScanInBuffer(buffer, bufferSize, pat, mask) ==
    IF bufferSize < Len(pat) THEN 0
    ELSE ScanBufferFrom(buffer, bufferSize, pat, mask, 0)

\* ReadProcessMemory(handle, address, buffer, n, &bytesRead): it copies all
\* n bytes or fails
ReadProcessMemory(os, base, handle, address, n) ==
    IF /\ UsableHandle(os, handle)
       /\ address >= base
       /\ address + n <= base + Len(os.bytes)
    THEN [ok |-> TRUE, bytesRead |-> n,
          buffer |-> SubSeq(os.bytes, address - base + 1,
                            address - base + n)]
    ELSE [ok |-> FALSE, bytesRead |-> 0, buffer |-> <<>>]

\* what VirtualQueryEx reports of the target: the free space below the
\* committed region and the region; a query behind it fails
Regions(os, base) ==
    <<[BaseAddress |-> 0, RegionSize |-> base, readable |-> FALSE],
      [BaseAddress |-> base, RegionSize |-> Len(os.bytes),
       readable |-> TRUE]>>

RECURSIVE ScanRegionsFrom(_, _, _, _, _, _)
\* the while loop of PatternScan over the regions, from the k-th
ScanRegionsFrom(self, os, base, pat, mask, k) ==
    IF ~UsableHandle(os, self.m_processHandle) \/ k > Len(Regions(os, base))
    THEN 0
    ELSE LET mbi == Regions(os, base)[k]
             rd  == ReadProcessMemory(os, base, self.m_processHandle,
                                      mbi.BaseAddress, mbi.RegionSize)
             res == PatternScanInBuffer(rd.buffer, rd.bytesRead, pat, mask)
         IN  IF mbi.readable /\ rd.ok /\ res # 0
             THEN mbi.BaseAddress + res
             ELSE ScanRegionsFrom(self, os, base, pat, mask, k + 1)

\* ProcessManager::PatternScan
ProcessManager_PatternScan(self, os, base, pat, mask, start, searchSize) ==
    IF \/ ~self.m_isAttached
       \/ Len(pat) = 0 \/ Len(mask) = 0 \/ Len(pat) # Len(mask)
    THEN 0
    ELSE IF start = 0 \/ searchSize = 0
    THEN ScanRegionsFrom(self, os, base, pat, mask, 1)
    ELSE LET rd  == ReadProcessMemory(os, base, self.m_processHandle,
                                      start, searchSize)
             res == PatternScanInBuffer(rd.buffer, rd.bytesRead, pat, mask)
         IN  IF rd.ok /\ res # 0 THEN start + res ELSE 0

\* the pattern and mask strings PatternScan is called with: strings of one
\* length, and the ill-formed pairs it rejects
ScanStrings ==
    {[pattern |-> p, mask |-> m] :
        p \in [1..1 -> ByteVals], m \in [1..1 -> {"x", "?"}]}
    \cup {[pattern |-> p, mask |-> m] :
        p \in [1..2 -> ByteVals], m \in {<<"x", "x">>, <<"?", "x">>,
                                         <<"x", "?">>}}
    \cup {[pattern |-> <<>>, mask |-> <<>>],
          [pattern |-> <<170>>, mask |-> <<>>],
          [pattern |-> <<170>>, mask |-> <<"x", "x">>]}

\* the bytes of the committed region of the target
TargetBytes ==
    {<<170, 170, 187>>, <<187, 170, 170>>, <<170, 187, 170>>,
     <<187, 187, 187>>}

InitProcess ==
    /\ pc = "ready"
    /\ input = NewProcessManager
    /\ pattern \in ScanStrings
    /\ \E bytes \in TargetBytes :
          data = [handles |-> <<>>, bytes |-> bytes]
    /\ dataNull = FALSE
    /\ size \in {0, 2}
    /\ baseAddress = 4096
    /\ bm = NoScanner
    /\ call = NoCall
    /\ result = FALSE
    /\ reads = 0

\* a member function has returned r, leaving the object and the operating
\* system as given
ProcessReturns(c, r, self, os) ==
    /\ call' = c
    /\ result' = r
    /\ input' = self
    /\ data' = os
    /\ UNCHANGED <<pc, pattern, dataNull, size, baseAddress, bm, reads>>

\* pm.AttachToProcessById(processId): OpenProcess returns a handle, as long
\* as the operating system has one, or fails
PM_AttachToProcessById ==
    /\ pc = "ready"
    /\ input.life = "alive"
    /\ \E processId \in ProcessIds, opened \in BOOLEAN :
          /\ opened => Len(data.handles) < MaxHandles
          /\ LET a == ProcessManager_AttachToProcessById(input, data,
                                                         processId, opened)
             IN  ProcessReturns([op |-> "ProcessManager::AttachToProcessById",
                                 opened |-> opened],
                                a.ret, a.self, a.os)

\* pm.AttachToProcess(processName)
PM_AttachToProcess ==
    /\ pc = "ready"
    /\ input.life = "alive"
    /\ \E processId \in ProcessIds \cup {0}, opened \in BOOLEAN :
          /\ opened => Len(data.handles) < MaxHandles
          /\ LET a == ProcessManager_AttachToProcess(input, data, processId,
                                                     opened)
             IN  ProcessReturns([op |-> "ProcessManager::AttachToProcess",
                                 opened |-> opened /\ processId # 0],
                                a.ret, a.self, a.os)

\* pm.DetachFromProcess()
PM_DetachFromProcess ==
    /\ pc = "ready"
    /\ input.life = "alive"
    /\ LET d == ProcessManager_DetachFromProcess(input, data)
       IN  ProcessReturns([op |-> "ProcessManager::DetachFromProcess"],
                          TRUE, d.self, d.os)

\* pm.GetModule(moduleName).IsValid()
PM_GetModule ==
    /\ pc = "ready"
    /\ input.life = "alive"
    /\ \E snapshot \in Snapshots :
          /\ Len(data.handles) < MaxHandles
          /\ LET g == ProcessManager_GetModule(input, data, "main.exe",
                                               snapshot)
             IN  ProcessReturns([op |-> "ProcessManager::GetModule"],
                                g.ret, g.self, g.os)

\* pm.PatternScan(pattern, mask, startAddress, searchSize)
PM_PatternScan ==
    /\ pc = "ready"
    /\ input.life = "alive"
    /\ \E startAddress \in {0, baseAddress, baseAddress + 1} :
          ProcessReturns([op |-> "ProcessManager::PatternScan",
                          startAddress |-> startAddress],
                         ProcessManager_PatternScan(input, data, baseAddress,
                             pattern.pattern, pattern.mask, startAddress,
                             size),
                         input, data)

\* ProcessManager::~ProcessManager
PM_Destroy ==
    /\ pc = "ready"
    /\ input.life = "alive"
    /\ LET d == ProcessManager_DetachFromProcess(input, data)
       IN  ProcessReturns([op |-> "ProcessManager::~ProcessManager"], TRUE,
                          [d.self EXCEPT !.life = "destroyed"], d.os)

NextProcess ==
    \/ PM_AttachToProcessById
    \/ PM_AttachToProcess
    \/ PM_DetachFromProcess
    \/ PM_GetModule
    \/ PM_PatternScan
    \/ PM_Destroy

SpecProcess == InitProcess /\ [][NextProcess]_vars

\* C29: an attach call whose OpenProcess yields no handle returns false and
\* leaves the manager detached with process id 0, and a manager that
\* reports IsAttached holds a handle that is open
C29_AttachFailureReported ==
    /\ (/\ call.op \in {"ProcessManager::AttachToProcessById",
                        "ProcessManager::AttachToProcess"}
        /\ ~call.opened)
          => /\ result = FALSE
             /\ ~input.m_isAttached
             /\ input.m_processId = 0
    /\ input.m_isAttached => UsableHandle(data, input.m_processHandle)

\* the bytes PatternScan reads for an explicit range
RangeRead ==
    ReadProcessMemory(data, baseAddress, input.m_processHandle,
                      call.startAddress, size)

\* the offsets of the range at which the masked pattern matches them
RangeMatches ==
    {k \in 0..(RangeRead.bytesRead - Len(pattern.pattern)) :
        \A j \in 1..Len(pattern.pattern) :
           pattern.mask[j] = "x"
              => RangeRead.buffer[k + j] = pattern.pattern[j]}

\* C30: PatternScan over an explicit range, called on an attached manager
\* with a pattern and mask of one length, returns startAddress + k for the
\* lowest offset k at which the masked pattern matches the bytes read,
\* k = 0 included, and 0 only when there is no such offset
C30_PatternScanRange ==
    (/\ call.op = "ProcessManager::PatternScan"
     /\ call.startAddress # 0 /\ size # 0
     /\ input.m_isAttached
     /\ Len(pattern.pattern) > 0
     /\ Len(pattern.pattern) = Len(pattern.mask))
        => /\ RangeMatches # {}
                => result = call.startAddress + MinOf(RangeMatches)
           /\ result = 0 => RangeMatches = {}

====
